---- MODULE Spec2Model ----
(***************************************************************************)
(* Model of the blockchain-api gateway: the asset identifier parser        *)
(* (data/parser), the network tables (data/networks), the three provider   *)
(* classes (AlchemyProvider, BitcoinProvider, CoinGeckoProvider) and the   *)
(* BlockchainService that dispatches to them.                              *)
(*                                                                         *)
(* JavaScript strings are sequences of tokens.  The separators ":" and "/" *)
(* are tokens of their own; every other token stands for a run of          *)
(* characters that holds no separator.  Values that are not strings        *)
(* (undefined, null bodies, inherited object properties) are sequences     *)
(* whose first token starts with "#", which no input contains.             *)
(***************************************************************************)
EXTENDS Naturals, Sequences, FiniteSets, TLC

VARIABLES apiKey, providers, op, request, assetInfo, response, invoked,
          upstream, thrown, result, joined

vars == <<apiKey, providers, op, request, assetInfo, response, invoked,
          upstream, thrown, result, joined>>

\* ---------------------------------------------------------------------
\* Bounds of the model
\* ---------------------------------------------------------------------
MaxLegacySegments == 4   \* legacy identifiers have 1..MaxLegacySegments segments
MaxRefSegments == 3      \* CAIP asset references have 0..MaxRefSegments segments
MaxIntegerDigits == 2    \* whole units of an amount have 0..MaxIntegerDigits digits
MaxCoreDigits == 2       \* significant digits of the fraction of an amount
MaxIns == 2              \* a Bitcoin transaction has 0..MaxIns inputs
MaxOuts == 2             \* a Bitcoin transaction has 0..MaxOuts outputs
MaxOwners == 2           \* an answer of the NFT API lists 0..MaxOwners owners
MaxBalances == 2         \* an owner comes with 0..MaxBalances token balances
MaxAssets == 2           \* a joined operation is given 0..MaxAssets identifiers

\* ---------------------------------------------------------------------
\* JavaScript values and string primitives
\* ---------------------------------------------------------------------
Colon == ":"
Slash == "/"

Undefined == <<"#undefined">>

\* The value found under key k on Object.prototype (e.g. the function Object
\* for "constructor"): a truthy value that is not a string.
Inherited(k) == <<"#Object.prototype", k>>

ObjectPrototypeKeys ==
    {"constructor", "toString", "valueOf", "hasOwnProperty", "__proto__"}

IsString(v) == v = <<>> \/ (v[1] # "#undefined" /\ v[1] # "#Object.prototype")

\* JavaScript truthiness of a string-or-undefined value.
Truthy(v) == v # <<>> /\ v # Undefined

\* `${v}` : the text a template literal renders for v.
Template(v) ==
    IF v = Undefined THEN <<"undefined">>
    ELSE IF IsString(v) THEN v
    ELSE <<"[native code]", v[2]>>

\* a || b
Or(a, b) == IF Truthy(a) THEN a ELSE b

\* s.includes(c) for a one-character separator c
Includes(s, c) == \E i \in 1..Len(s) : s[i] = c

\* s.split(sep): the pieces of s between the occurrences of sep
RECURSIVE Split(_, _)
Split(s, sep) ==
    IF ~Includes(s, sep) THEN <<s>>
    ELSE LET i == CHOOSE i \in 1..Len(s) :
                      s[i] = sep /\ \A j \in 1..(i - 1) : s[j] # sep
         IN <<SubSeq(s, 1, i - 1)>> \o Split(SubSeq(s, i + 1, Len(s)), sep)

\* parts.join(sep)
RECURSIVE Join(_, _)
Join(parts, sep) ==
    IF parts = <<>> THEN <<>>
    ELSE IF Len(parts) = 1 THEN parts[1]
    ELSE parts[1] \o <<sep>> \o Join(Tail(parts), sep)

\* parts[i - 1] of a JavaScript array (1-based here); undefined past the end
At(parts, i) == IF i <= Len(parts) THEN parts[i] ELSE Undefined

\* table[key] on a plain object literal: own keys first, then the keys every
\* object inherits from Object.prototype, else undefined.
Lookup(table, key) ==
    LET k == Template(key)
    IN IF k \in DOMAIN table THEN table[k]
       ELSE IF Len(k) = 1 /\ k[1] \in ObjectPrototypeKeys THEN Inherited(k[1])
       ELSE Undefined

\* ---------------------------------------------------------------------
\* data/networks
\* ---------------------------------------------------------------------
NETWORKS ==
    <<"ethereum">> :> <<"ethereum">> @@ <<"polygon">> :> <<"polygon">> @@
    <<"arbitrum">> :> <<"arbitrum">> @@ <<"optimism">> :> <<"optimism">> @@
    <<"base">> :> <<"base">> @@ <<"bitcoin">> :> <<"bitcoin">>

COINGECKO_COIN_IDS ==
    <<"ethereum">> :> <<"ethereum">> @@ <<"polygon">> :> <<"matic-network">> @@
    <<"arbitrum">> :> <<"arbitrum">> @@ <<"optimism">> :> <<"optimism">> @@
    <<"base">> :> <<"base">> @@ <<"bitcoin">> :> <<"bitcoin">>

ALCHEMY_NETWORKS ==
    <<"ethereum">> :> <<"eth-mainnet">> @@ <<"polygon">> :> <<"polygon-mainnet">> @@
    <<"arbitrum">> :> <<"arb-mainnet">> @@ <<"optimism">> :> <<"opt-mainnet">> @@
    <<"base">> :> <<"base-mainnet">>

\* ---------------------------------------------------------------------
\* data/parser: parseAssetId, parseCAIPAssetId
\* ---------------------------------------------------------------------
\* An AssetInfo, or the Error thrown instead (thrown # "none").
AssetInfoNoContract(id, net, contract, token, type) ==
    [thrown |-> "none", assetId |-> id, networkId |-> net,
     contractAddress |-> Undefined, tokenId |-> token, type |-> type]

AssetInfo(id, net, contract, token, type) ==
    [thrown |-> "none", assetId |-> id, networkId |-> net,
     contractAddress |-> contract, tokenId |-> token, type |-> type]

ParseError(kind, id) ==
    [thrown |-> kind, assetId |-> id, networkId |-> Undefined,
     contractAddress |-> Undefined, tokenId |-> Undefined, type |-> "none"]

NotParsed == ParseError("not parsed", Undefined)

chainIdMap ==
    <<"1">> :> <<"ethereum">> @@ <<"137">> :> <<"polygon">> @@
    <<"42161">> :> <<"arbitrum">> @@ <<"10">> :> <<"optimism">> @@
    <<"8453">> :> <<"base">>

\* networkId and the type the chain namespace sets (lines 208-223)
CAIPNetwork(chainNamespace, chainReference) ==
    IF chainNamespace = <<"bip122">> THEN <<"bitcoin">>
    ELSE IF chainNamespace = <<"eip155">>
    THEN Or(Lookup(chainIdMap, chainReference),
            <<"eip155", Colon>> \o Template(chainReference))
    ELSE Undefined

\* assetParts.slice(1).join(':')
AssetReferenceSecondPartOnly(assetParts) ==
    IF Len(assetParts) > 1 THEN assetParts[2] ELSE <<>>

AssetReference(assetParts) == Join(Tail(assetParts), Colon)

\* the erc721 / erc1155 branches: split the reference into contract and token
NftReferenceTwoOrMore(assetReference) ==
    LET parts == Split(assetReference, Colon)
    IN IF Len(parts) >= 2
       THEN [contractAddress |-> parts[1], tokenId |-> parts[2]]
       ELSE [contractAddress |-> assetReference, tokenId |-> Undefined]

NftReference(assetReference) ==
    LET parts == Split(assetReference, Colon)
    IN IF Len(parts) = 2
       THEN [contractAddress |-> parts[1], tokenId |-> parts[2]]
       ELSE [contractAddress |-> assetReference, tokenId |-> Undefined]

\* the final else of the asset-namespace chain (lines 252-254)
UnsupportedAssetNamespaceAsNative(assetId, networkId) ==
    AssetInfo(assetId, networkId, Undefined, Undefined, "native")

UnsupportedAssetNamespace(assetId, networkId) ==
    ParseError("Unsupported asset namespace", assetId)

parseCAIPAssetId(assetId) ==
    LET halves == Split(assetId, Slash)
        chainPart == At(halves, 1)
        assetPart == At(halves, 2)
        chain == Split(chainPart, Colon)
        chainNamespace == At(chain, 1)
        chainReference == At(chain, 2)
        assetParts == Split(assetPart, Colon)
        assetNamespace == assetParts[1]
        assetReference == AssetReference(assetParts)
        networkId == CAIPNetwork(chainNamespace, chainReference)
        nft == NftReference(assetReference)
    IN IF chainNamespace # <<"bip122">> /\ chainNamespace # <<"eip155">>
       THEN ParseError("Unsupported chain namespace", assetId)
       ELSE IF assetNamespace = <<"slip44">>
       THEN AssetInfo(assetId, networkId, Undefined, Undefined,
                      IF networkId = <<"bitcoin">> THEN "bitcoin" ELSE "native")
       ELSE IF assetNamespace = <<"erc20">>
       THEN AssetInfo(assetId, networkId, assetReference, Undefined, "erc20")
       ELSE IF assetNamespace = <<"erc721">>
       THEN AssetInfo(assetId, networkId, nft.contractAddress, nft.tokenId,
                      "erc721")
       ELSE IF assetNamespace = <<"erc1155">>
       THEN AssetInfo(assetId, networkId, nft.contractAddress, nft.tokenId,
                      "erc1155")
       ELSE UnsupportedAssetNamespace(assetId, networkId)

parseAssetIdNoBitcoinLiteral(assetId) ==
    IF Includes(assetId, Slash) THEN parseCAIPAssetId(assetId)
    ELSE LET parts == Split(assetId, Colon)
         IN IF Len(parts) = 1
            THEN AssetInfo(assetId, parts[1], Undefined, Undefined, "native")
            ELSE IF Len(parts) = 2
            THEN AssetInfo(assetId, parts[1], parts[2], Undefined, "erc20")
            ELSE IF Len(parts) = 3
            THEN AssetInfo(assetId, parts[1], parts[2], parts[3], "erc721")
            ELSE ParseError("Invalid assetId format", assetId)

parseAssetId(assetId) ==
    IF Includes(assetId, Slash) THEN parseCAIPAssetId(assetId)
    ELSE LET parts == Split(assetId, Colon)
         IN IF assetId = <<"bitcoin">>
            THEN AssetInfo(assetId, <<"bitcoin">>, Undefined, Undefined,
                           "bitcoin")
            ELSE IF Len(parts) = 1
            THEN AssetInfo(assetId, parts[1], Undefined, Undefined, "native")
            ELSE IF Len(parts) = 2
            THEN AssetInfo(assetId, parts[1], parts[2], Undefined, "erc20")
            ELSE IF Len(parts) = 3
            THEN AssetInfo(assetId, parts[1], parts[2], parts[3], "erc721")
            ELSE ParseError("Invalid assetId format", assetId)

\* picks the most specific form its truthy arguments allow
buildAssetId(networkId, contractAddress, tokenId) ==
    IF networkId = <<"bitcoin">> THEN <<"bitcoin">>
    ELSE IF ~Truthy(contractAddress) THEN networkId
    ELSE IF ~Truthy(tokenId)
    THEN Template(networkId) \o <<Colon>> \o Template(contractAddress)
    ELSE Template(networkId) \o <<Colon>> \o Template(contractAddress)
             \o <<Colon>> \o Template(tokenId)

\* ---------------------------------------------------------------------
\* data/networks: weiToEther, etherToWei, satoshiToBitcoin, bitcoinToSatoshi
\* ---------------------------------------------------------------------
\* Amounts are strings of decimal digits, one token per character.  A BigInt
\* is the sequence of its decimal digits as numbers, most significant
\* first, without leading zeros; zero is <<0>>.
Dot == "."
DigitChars == <<"0", "1", "2", "3", "4", "5", "6", "7", "8", "9">>
DigitOf(c) == CHOOSE n \in 0..9 : DigitChars[n + 1] = c

RECURSIVE Normalize(_)
Normalize(ds) ==
    IF ds = <<>> THEN <<0>>
    ELSE IF Len(ds) > 1 /\ ds[1] = 0 THEN Normalize(Tail(ds))
    ELSE ds

\* BigInt(s) for a string of digits; BigInt('') is 0n
BigInt(s) == Normalize([i \in 1..Len(s) |-> DigitOf(s[i])])

\* x.toString()
BigIntToString(x) == [i \in 1..Len(x) |-> DigitChars[x[i] + 1]]

Zeros(n) == [i \in 1..n |-> 0]

\* x / BigInt(10 ** d) and x % BigInt(10 ** d): the digits above and the
\* digits within the d lowest places
DivPow10(x, d) == IF Len(x) > d THEN SubSeq(x, 1, Len(x) - d) ELSE <<0>>
ModPow10(x, d) ==
    Normalize(IF Len(x) > d THEN SubSeq(x, Len(x) - d + 1, Len(x)) ELSE x)

\* x * BigInt(10 ** d)
MulPow10(x, d) == IF x = <<0>> THEN x ELSE x \o Zeros(d)

\* x + y, digit by digit from the lowest place with a carry
RECURSIVE AddFrom(_, _, _, _)
AddFrom(x, y, i, carry) ==
    LET dx == IF i <= Len(x) THEN x[Len(x) - i + 1] ELSE 0
        dy == IF i <= Len(y) THEN y[Len(y) - i + 1] ELSE 0
        sum == dx + dy + carry
    IN IF i > Len(x) /\ i > Len(y)
       THEN (IF carry = 0 THEN <<>> ELSE <<carry>>)
       ELSE AddFrom(x, y, i + 1, sum \div 10) \o <<sum % 10>>

Add(x, y) == Normalize(AddFrom(x, y, 1, 0))

\* s.padStart(n, '0') and s.padEnd(n, '0')
PadStartNone(s, n) == s

PadStart(s, n) ==
    IF Len(s) >= n THEN s ELSE [i \in 1..(n - Len(s)) |-> "0"] \o s

PadEnd(s, n) ==
    IF Len(s) >= n THEN s ELSE s \o [i \in 1..(n - Len(s)) |-> "0"]

\* s.slice(0, n)
Slice(s, n) == SubSeq(s, 1, IF Len(s) < n THEN Len(s) ELSE n)

\* s.replace(/0+$/, '')
StripTrailingZerosNot(s) == s

RECURSIVE StripTrailingZeros(_)
StripTrailingZeros(s) ==
    IF s # <<>> /\ s[Len(s)] = "0"
    THEN StripTrailingZeros(SubSeq(s, 1, Len(s) - 1))
    ELSE s

EtherDecimals == 18
BitcoinDecimals == 8

\* the body weiToEther and satoshiToBitcoin share, for d decimals
FromBaseUnit(amount, d) ==
    LET amountBigInt == BigInt(amount)
        integerBigInt == DivPow10(amountBigInt, d)
        remainder == ModPow10(amountBigInt, d)
        remainderStr == PadStart(BigIntToString(remainder), d)
        decimalPart == StripTrailingZeros(remainderStr)
    IN IF remainder = <<0>> THEN BigIntToString(integerBigInt)
       ELSE IF decimalPart = <<>> THEN BigIntToString(integerBigInt)
       ELSE BigIntToString(integerBigInt) \o <<Dot>> \o decimalPart

\* the body etherToWei and bitcoinToSatoshi share
ToBaseUnit(human, d) ==
    LET parts == Split(human, Dot)
        integerPart == parts[1]
        decimalPart == IF Len(parts) >= 2 THEN parts[2] ELSE <<>>
        paddedDecimal == Slice(PadEnd(decimalPart, d), d)
    IN BigIntToString(Add(MulPow10(BigInt(integerPart), d), BigInt(paddedDecimal)))

weiToEther(wei) == FromBaseUnit(wei, EtherDecimals)
etherToWei(ether) == ToBaseUnit(ether, EtherDecimals)
satoshiToBitcoin(satoshi) == FromBaseUnit(satoshi, BitcoinDecimals)
bitcoinToSatoshi(bitcoin) == ToBaseUnit(bitcoin, BitcoinDecimals)

\* ---------------------------------------------------------------------
\* data/types: ApiResponse<T>
\* ---------------------------------------------------------------------
NoData == [kind |-> "absent"]
NoError == "none"
NoMessage == "none"

\* { success: true, data, timestamp }
Ok(data) ==
    [success |-> TRUE, data |-> data, error |-> NoError, message |-> NoMessage]

\* { success: false, error: { code, message, details }, timestamp }
FailWith(code, message) ==
    [success |-> FALSE, data |-> NoData, error |-> code, message |-> message]

\* The messages the model tells apart are the ones the Alchemy provider
\* writes itself; every other one is the message of the error caught.
Fail(code) == FailWith(code, "error.message")

NoResponse ==
    [success |-> FALSE, data |-> NoData, error |-> NoError,
     message |-> NoMessage]

\* ---------------------------------------------------------------------
\* Outcomes of one upstream call (axios / ethers promise)
\*   ok            resolves with a body of the documented shape
\*   nodata        resolves with a well-formed body that lacks the entry asked for
\*   malformed     resolves with a null body / null result
\*   reject        rejects with an Error object
\*   rejectNullish rejects with a null or undefined reason
\* ---------------------------------------------------------------------
Resolved == {"ok", "nodata", "malformed"}
Rejected == {"reject", "rejectNullish"}
Outcomes == Resolved \cup Rejected

\* A request to a host that is not a string in the alias table cannot be
\* answered: the URL is built from an inherited property.
Reach(host, out) == IF IsString(host) THEN out ELSE "reject"

\* One request sent upstream, with the way it ended and, where the model
\* follows the content of the answer (the Blockstream API), the body of it.
NoBody == <<>>

CallBody(provider, name, out, body) ==
    [provider |-> provider, call |-> name, outcome |-> out, body |-> body]

Call(provider, name, out) == CallBody(provider, name, out, NoBody)

\* What a provider method returns or throws, the upstream requests it issued
\* and the per-network client cache it leaves.
Ret(resp, ups, cache) ==
    [response |-> resp, upstream |-> ups, providers |-> cache, threw |-> FALSE]

Threw(ups, cache) ==
    [response |-> NoResponse, upstream |-> ups, providers |-> cache,
     threw |-> TRUE]

\* catch (error) { return { success: false, error: { code,
\*   message: error.message || ..., details: error.response?.data } } }
\* Reading error.message of a null/undefined error throws a TypeError out of
\* the catch block.
Caught(code, out, ups, cache) ==
    IF out = "rejectNullish" THEN Threw(ups, cache)
    ELSE Ret(Fail(code), ups, cache)

\* await Promise.all(calls): rejects with the reason of the sub-call that
\* rejects first (index first), resolves when none rejects.
AllOutcome(outs, first) ==
    IF \E i \in 1..Len(outs) : outs[i] \in Rejected
    THEN (IF outs[first] \in Rejected THEN outs[first]
          ELSE outs[CHOOSE i \in 1..Len(outs) : outs[i] \in Rejected])
    ELSE IF \E i \in 1..Len(outs) : outs[i] # "ok" THEN "malformed"
    ELSE "ok"

\* ---------------------------------------------------------------------
\* provider/alchemy: AlchemyProvider
\* ---------------------------------------------------------------------
\* getProvider(networkId): the cached client, or a new one stored in the
\* cache; throws for a network that either table lacks.
\* The cache (this.providers, a Map) takes a networkId to the client stored
\* for it; clients are numbered in the order of their construction.
EmptyCache == [networkId \in {} |-> 0]

\* new ethers.JsonRpcProvider(rpcUrl): a client no entry of the cache holds
NewClient(cache) ==
    IF DOMAIN cache = {} THEN 1
    ELSE 1 + CHOOSE m \in {cache[n] : n \in DOMAIN cache} :
                 \A n \in DOMAIN cache : cache[n] <= m

\* this.providers.set(networkId, provider)
MapSet(cache, networkId, provider) ==
    [n \in DOMAIN cache \cup {networkId} |->
        IF n = networkId THEN provider ELSE cache[n]]

\* `Unsupported network: ${networkId}`,
\* `Alchemy not supported for network: ${networkId}`
UnsupportedNetwork == "Unsupported network"
AlchemyNotSupported == "Alchemy not supported for network"

getProviderAlwaysConstructs(networkId, cache) ==
    IF ~Truthy(Lookup(NETWORKS, networkId))
    THEN [threw |-> TRUE, cache |-> cache, message |-> UnsupportedNetwork]
    ELSE IF ~Truthy(Lookup(ALCHEMY_NETWORKS, networkId))
    THEN [threw |-> TRUE, cache |-> cache, message |-> AlchemyNotSupported]
    ELSE [threw |-> FALSE, message |-> NoMessage,
          cache |-> MapSet(cache, networkId, NewClient(cache))]

getProvider(networkId, cache) ==
    IF networkId \in DOMAIN cache
    THEN [threw |-> FALSE, cache |-> cache, message |-> NoMessage]
    ELSE IF ~Truthy(Lookup(NETWORKS, networkId))
    THEN [threw |-> TRUE, cache |-> cache, message |-> UnsupportedNetwork]
    ELSE IF ~Truthy(Lookup(ALCHEMY_NETWORKS, networkId))
    THEN [threw |-> TRUE, cache |-> cache, message |-> AlchemyNotSupported]
    ELSE [threw |-> FALSE, message |-> NoMessage,
          cache |-> MapSet(cache, networkId, NewClient(cache))]

\* AlchemyProvider.getBalance(address, assetId); outs = <<balance call>> for a
\* native asset, <<balanceOf, decimals>> for an erc20 one.
\* 'Alchemy API key is required. ...', `Unsupported asset type: ${type}`
ApiKeyRequired == "Alchemy API key is required"
UnsupportedAssetType == "Unsupported asset type"

AlchemyGetBalanceTypeFirst(assetId, outs, first, cache) ==
    LET code == "BALANCE_FETCH_ERROR"
        a == parseAssetId(assetId)
        p == getProvider(a.networkId, cache)
        host == Lookup(ALCHEMY_NETWORKS, a.networkId)
        data == [kind |-> "balance", assetId |-> assetId,
                 networkId |-> a.networkId]
    IN IF apiKey = ""
       THEN Ret(FailWith("MISSING_API_KEY", ApiKeyRequired), {}, cache)
       ELSE IF a.thrown # "none" THEN Ret(Fail(code), {}, cache)
       ELSE IF a.type \notin {"native", "erc20"}
       THEN Ret(FailWith(code, UnsupportedAssetType), {}, cache)
       ELSE IF p.threw THEN Ret(FailWith(code, p.message), {}, cache)
       ELSE IF a.type = "native"
       THEN LET out == Reach(host, outs[1])
                ups == {Call("alchemy", "eth_getBalance", out)}
            IN IF out = "ok" THEN Ret(Ok(data), ups, p.cache)
               ELSE Caught(code, out, ups, p.cache)
       ELSE IF a.type = "erc20" /\ Truthy(a.contractAddress)
       THEN LET out == Reach(host, AllOutcome(outs, first))
                ups == {Call("alchemy", "balanceOf", Reach(host, outs[1])),
                        Call("alchemy", "decimals", Reach(host, outs[2]))}
            IN IF out = "ok" THEN Ret(Ok(data), ups, p.cache)
               ELSE Caught(code, out, ups, p.cache)
       ELSE Ret(FailWith(code, UnsupportedAssetType), {}, p.cache)

AlchemyGetBalance(assetId, outs, first, cache) ==
    LET code == "BALANCE_FETCH_ERROR"
        a == parseAssetId(assetId)
        p == getProvider(a.networkId, cache)
        host == Lookup(ALCHEMY_NETWORKS, a.networkId)
        data == [kind |-> "balance", assetId |-> assetId,
                 networkId |-> a.networkId]
    IN IF apiKey = ""
       THEN Ret(FailWith("MISSING_API_KEY", ApiKeyRequired), {}, cache)
       ELSE IF a.thrown # "none" THEN Ret(Fail(code), {}, cache)
       ELSE IF p.threw THEN Ret(FailWith(code, p.message), {}, cache)
       ELSE IF a.type = "native"
       THEN LET out == Reach(host, outs[1])
                ups == {Call("alchemy", "eth_getBalance", out)}
            IN IF out = "ok" THEN Ret(Ok(data), ups, p.cache)
               ELSE Caught(code, out, ups, p.cache)
       ELSE IF a.type = "erc20" /\ Truthy(a.contractAddress)
       THEN LET out == Reach(host, AllOutcome(outs, first))
                ups == {Call("alchemy", "balanceOf", Reach(host, outs[1])),
                        Call("alchemy", "decimals", Reach(host, outs[2]))}
            IN IF out = "ok" THEN Ret(Ok(data), ups, p.cache)
               ELSE Caught(code, out, ups, p.cache)
       ELSE Ret(FailWith(code, UnsupportedAssetType), {}, p.cache)

\* AlchemyProvider.getGas(networkId, type)
AlchemyGetGas(networkId, mode, out0, cache) ==
    LET code == "GAS_FETCH_ERROR"
        p == getProvider(networkId, cache)
        out == Reach(Lookup(ALCHEMY_NETWORKS, networkId), out0)
        ups == {Call("alchemy", "getFeeData", out)}
        data == [kind |-> "gas", networkId |-> networkId, type |-> mode]
    IN IF apiKey = ""
       THEN Ret(FailWith("MISSING_API_KEY", ApiKeyRequired), {}, cache)
       ELSE IF p.threw THEN Ret(FailWith(code, p.message), {}, cache)
       ELSE IF out \in {"ok", "nodata"} THEN Ret(Ok(data), ups, p.cache)
       ELSE Caught(code, out, ups, p.cache)

\* AlchemyProvider.getHistory(address, assetId, page, limit)
AlchemyGetHistory(assetId, out0, cache) ==
    LET code == "HISTORY_FETCH_ERROR"
        a == parseAssetId(assetId)
        p == getProvider(a.networkId, cache)
        host == Lookup(ALCHEMY_NETWORKS, a.networkId)
        out == Reach(host, out0)
        ups == {Call("alchemy", "alchemy_getAssetTransfers", out)}
        data == [kind |-> "history", assetId |-> assetId,
                 networkId |-> a.networkId]
    IN IF a.thrown # "none" THEN Ret(Fail(code), {}, cache)
       ELSE IF p.threw THEN Ret(FailWith(code, p.message), {}, cache)
       ELSE IF ~Truthy(host) THEN Ret(Fail(code), {}, p.cache)
       ELSE IF out \in {"ok", "nodata"} THEN Ret(Ok(data), ups, p.cache)
       ELSE Caught(code, out, ups, p.cache)

\* item.tokenBalances of an entry of ownerAddresses: missing, an array of
\* { tokenId, balance }, or a value that is not an array
NoBalances == [kind |-> "absent"]
NotAnArray == [kind |-> "object"]
Balances(items) == [kind |-> "array", items |-> items]

\* one NftOwner
NftOwner(owner, tokenId, balance) ==
    [owner |-> owner, tokenId |-> tokenId, balance |-> balance]

\* what the loop body pushes for one item of ownerAddresses
OwnerEntriesDetailedOnly(item) ==
    LET balances == IF item.tokenBalances = NoBalances THEN Balances(<<>>)
                    ELSE item.tokenBalances
    IN IF balances.kind = "array" /\ Len(balances.items) > 0
       THEN [k \in 1..Len(balances.items) |->
                NftOwner(item.ownerAddress,
                         Or(balances.items[k].tokenId, <<>>),
                         Or(balances.items[k].balance, <<"1">>))]
       ELSE <<>>

OwnerEntries(item) ==
    LET balances == IF item.tokenBalances = NoBalances THEN Balances(<<>>)
                    ELSE item.tokenBalances
    IN IF balances.kind = "array" /\ Len(balances.items) > 0
       THEN [k \in 1..Len(balances.items) |->
                NftOwner(item.ownerAddress,
                         Or(balances.items[k].tokenId, <<>>),
                         Or(balances.items[k].balance, <<"1">>))]
       ELSE <<NftOwner(item.ownerAddress, <<>>, <<"1">>)>>

\* for (const item of ownerAddresses) { ... nftOwners.push(...) }
RECURSIVE CollectionOwners(_)
CollectionOwners(ownerAddresses) ==
    IF ownerAddresses = <<>> THEN <<>>
    ELSE OwnerEntries(Head(ownerAddresses))
             \o CollectionOwners(Tail(ownerAddresses))

\* owners.map(ownerAddress => ({ owner, tokenId, balance: '1' }))
TokenOwners(owners, tokenId) ==
    [k \in 1..Len(owners) |-> NftOwner(owners[k], tokenId, <<"1">>)]

\* AlchemyProvider.getNftOwners(contractAddress, networkId, tokenId?); body
\* is result.owners of the JSON-RPC answer when a tokenId is given and
\* ownerAddresses of the REST answer otherwise.
AlchemyGetNftOwners(contractAddress, networkId, tokenId, body, out0, cache) ==
    LET code == "NFT_OWNERS_FETCH_ERROR"
        host == Lookup(ALCHEMY_NETWORKS, networkId)
        out == Reach(host, out0)
        ups == IF Truthy(tokenId)
               THEN {CallBody("alchemy", "alchemy_getOwnersForToken", out, body)}
               ELSE {CallBody("alchemy", "getOwnersForCollection", out, body)}
        listed == IF out = "ok" THEN body ELSE <<>>
        nftOwners == IF Truthy(tokenId) THEN TokenOwners(listed, tokenId)
                     ELSE CollectionOwners(listed)
        data == [kind |-> "nftOwners", owners |-> nftOwners,
                 total |-> Len(nftOwners),
                 contractAddress |-> contractAddress,
                 networkId |-> networkId,
                 tokenId |-> IF Truthy(tokenId) THEN tokenId ELSE Undefined]
    IN IF ~Truthy(host) THEN Ret(Fail(code), {}, cache)
       ELSE IF out \in Resolved THEN Ret(Ok(data), ups, cache)
       ELSE Caught(code, out, ups, cache)

\* AlchemyProvider.getNftsForOwner(ownerAddress, networkId, contractAddress?):
\* the upstream body is handed on as data without a look at it.
AlchemyGetNftsForOwner(networkId, out0, cache) ==
    LET code == "NFTS_FOR_OWNER_FETCH_ERROR"
        host == Lookup(ALCHEMY_NETWORKS, networkId)
        out == Reach(host, out0)
        ups == {Call("alchemy", "getNFTsForOwner", out)}
        body == IF out = "malformed" THEN [kind |-> "null"]
                ELSE [kind |-> "nfts"]
    IN IF ~Truthy(host) THEN Ret(Fail(code), {}, cache)
       ELSE IF out \in Resolved THEN Ret(Ok(body), ups, cache)
       ELSE Caught(code, out, ups, cache)

\* AlchemyProvider.getTokenMetadata(assetId); outs = the four contract calls
AlchemyGetTokenMetadata(assetId, outs, first, cache) ==
    LET code == "TOKEN_METADATA_FETCH_ERROR"
        a == parseAssetId(assetId)
        network == Lookup(NETWORKS, a.networkId)
        p == getProvider(a.networkId, cache)
        host == Lookup(ALCHEMY_NETWORKS, a.networkId)
        out == Reach(host, AllOutcome(outs, first))
        ups == {Call("alchemy", "name", Reach(host, outs[1])),
                Call("alchemy", "symbol", Reach(host, outs[2])),
                Call("alchemy", "decimals", Reach(host, outs[3])),
                Call("alchemy", "totalSupply", Reach(host, outs[4]))}
        data == [kind |-> "tokenMetadata", assetId |-> assetId,
                 networkId |-> a.networkId, type |-> a.type]
    IN IF a.thrown # "none" THEN Ret(Fail(code), {}, cache)
       ELSE IF a.type = "native"
       THEN (IF Truthy(network) /\ IsString(network)
             THEN Ret(Ok(data), {}, cache)
             ELSE Ret(Fail(code), {}, cache))
       ELSE IF a.type = "erc20" /\ Truthy(a.contractAddress)
       THEN (IF p.threw THEN Ret(FailWith(code, p.message), {}, cache)
             ELSE IF out \in {"ok", "nodata"} THEN Ret(Ok(data), ups, p.cache)
             ELSE Caught(code, out, ups, p.cache))
       ELSE Ret(Fail(code), {}, cache)

\* AlchemyProvider.getNftMetadata(assetId)
AlchemyGetNftMetadata(assetId, out0, cache) ==
    LET code == "NFT_METADATA_FETCH_ERROR"
        a == parseAssetId(assetId)
        host == Lookup(ALCHEMY_NETWORKS, a.networkId)
        out == Reach(host, out0)
        ups == {Call("alchemy", "alchemy_getNFTMetadata", out)}
        data == [kind |-> "nftMetadata", networkId |-> a.networkId,
                 contractAddress |-> a.contractAddress,
                 tokenId |-> a.tokenId, type |-> a.type]
    IN IF a.thrown # "none" THEN Ret(Fail(code), {}, cache)
       ELSE IF a.type # "erc721" /\ a.type # "erc1155"
       THEN Ret(Fail(code), {}, cache)
       ELSE IF ~Truthy(a.contractAddress) \/ ~Truthy(a.tokenId)
       THEN Ret(Fail(code), {}, cache)
       ELSE IF ~Truthy(host) THEN Ret(Fail(code), {}, cache)
       ELSE IF out = "ok" THEN Ret(Ok(data), ups, cache)
       ELSE Caught(code, out, ups, cache)

\* ---------------------------------------------------------------------
\* provider/bitcoin: BitcoinProvider
\* ---------------------------------------------------------------------
\* n.toString() for a JavaScript number that is a non-negative integer
RECURSIVE NumberToString(_)
NumberToString(n) ==
    IF n < 10 THEN <<DigitChars[n + 1]>>
    ELSE NumberToString(n \div 10) \o <<DigitChars[(n % 10) + 1]>>

\* BitcoinProvider.getBalance(address); body is addressData.chain_stats
BitcoinGetBalanceFundedOnly(body, out, cache) ==
    LET ups == {CallBody("bitcoin", "/address", out, body)}
        balance == body.funded_txo_sum
        data == [kind |-> "balance", assetId |-> <<"bitcoin">>,
                 networkId |-> <<"bitcoin">>,
                 balance |-> NumberToString(balance),
                 balanceFormatted |-> satoshiToBitcoin(NumberToString(balance))]
    IN IF out = "ok" THEN Ret(Ok(data), ups, cache)
       ELSE Caught("BITCOIN_BALANCE_FETCH_ERROR", out, ups, cache)

BitcoinGetBalance(body, out, cache) ==
    LET ups == {CallBody("bitcoin", "/address", out, body)}
        balance == body.funded_txo_sum - body.spent_txo_sum
        data == [kind |-> "balance", assetId |-> <<"bitcoin">>,
                 networkId |-> <<"bitcoin">>,
                 balance |-> NumberToString(balance),
                 balanceFormatted |-> satoshiToBitcoin(NumberToString(balance))]
    IN IF out = "ok" THEN Ret(Ok(data), ups, cache)
       ELSE Caught("BITCOIN_BALANCE_FETCH_ERROR", out, ups, cache)

\* A transaction of the body: vin holds the prevout address of each input
\* (undefined for a coinbase input), vout the address and value of each
\* output.
\* tx.vin.find(input => input.prevout?.scriptpubkey_address === address)
RelevantInput(tx, address) == \E i \in 1..Len(tx.vin) : tx.vin[i] = address

\* tx.vout.find(output => output.scriptpubkey_address === address)
HasRelevantOutput(tx, address) ==
    \E j \in 1..Len(tx.vout) : tx.vout[j].scriptpubkey_address = address

RelevantOutput(tx, address) ==
    tx.vout[CHOOSE j \in 1..Len(tx.vout) :
                /\ tx.vout[j].scriptpubkey_address = address
                /\ \A k \in 1..(j - 1) :
                       tx.vout[k].scriptpubkey_address # address]

\* tx.vout.reduce((sum, output) => sum + output.value, 0)
RECURSIVE SumOutputs(_)
SumOutputs(vout) ==
    IF vout = <<>> THEN 0 ELSE vout[1].value + SumOutputs(Tail(vout))

IsSendInputOnly(tx, address) == RelevantInput(tx, address)

IsSend(tx, address) ==
    RelevantInput(tx, address) /\ ~HasRelevantOutput(tx, address)

IsReceive(tx, address) ==
    ~RelevantInput(tx, address) /\ HasRelevantOutput(tx, address)

\* the Transaction the map callback returns for tx
Transaction(tx, address) ==
    LET value == IF IsSend(tx, address)
                 THEN NumberToString(SumOutputs(tx.vout))
                 ELSE IF IsReceive(tx, address)
                 THEN NumberToString(RelevantOutput(tx, address).value)
                 ELSE <<"0">>
    IN [type |-> IF IsSend(tx, address) THEN "send"
                 ELSE IF IsReceive(tx, address) THEN "receive"
                 ELSE "send",
        from |-> IF IsSend(tx, address) THEN address
                 ELSE IF tx.vin # <<>> THEN Or(tx.vin[1], <<>>) ELSE <<>>,
        to |-> IF IsReceive(tx, address) THEN address
               ELSE IF tx.vout # <<>> THEN tx.vout[1].scriptpubkey_address
               ELSE <<>>,
        value |-> value,
        valueFormatted |-> satoshiToBitcoin(value),
        gasPrice |-> <<"0">>]

\* BitcoinProvider.getHistory(address, page, limit); body is response.data
BitcoinGetHistory(address, body, out, cache) ==
    LET ups == {CallBody("bitcoin", "/address/txs", out, body)}
        transactions == [k \in 1..Len(body) |-> Transaction(body[k], address)]
        data == [kind |-> "history", assetId |-> <<"bitcoin">>,
                 networkId |-> <<"bitcoin">>,
                 transactions |-> transactions,
                 total |-> Len(transactions)]
    IN IF out = "ok" THEN Ret(Ok(data), ups, cache)
       ELSE Caught("BITCOIN_HISTORY_FETCH_ERROR", out, ups, cache)

\* ---------------------------------------------------------------------
\* provider/coingecko: CoinGeckoProvider
\* ---------------------------------------------------------------------
\* s.includes(sub) for a run of tokens sub
IncludesSub(s, sub) ==
    \E i \in 1..Len(s) :
        i + Len(sub) - 1 <= Len(s) /\ SubSeq(s, i, i + Len(sub) - 1) = sub

coinGeckoChainIdMap ==
    <<"1">> :> <<"ethereum">> @@ <<"137">> :> <<"matic-network">> @@
    <<"42161">> :> <<"arbitrum">> @@ <<"10">> :> <<"optimism">> @@
    <<"8453">> :> <<"base">>

platformMap ==
    <<"1">> :> <<"ethereum">> @@ <<"137">> :> <<"polygon-pos">> @@
    <<"42161">> :> <<"arbitrum-one">> @@ <<"10">> :> <<"optimistic-ethereum">> @@
    <<"8453">> :> <<"base">>

\* the legacy tail of getCoinGeckoId (lines 1102-1118)
LegacyCoinGeckoIdNetworkName(assetId) ==
    IF assetId = <<"bitcoin">> THEN <<"bitcoin">>
    ELSE IF Truthy(Lookup(COINGECKO_COIN_IDS, assetId))
    THEN Lookup(COINGECKO_COIN_IDS, assetId)
    ELSE IF Includes(assetId, Colon)
    THEN Split(assetId, Colon)[1]
    ELSE assetId

LegacyCoinGeckoId(assetId) ==
    IF assetId = <<"bitcoin">> THEN <<"bitcoin">>
    ELSE IF Truthy(Lookup(COINGECKO_COIN_IDS, assetId))
    THEN Lookup(COINGECKO_COIN_IDS, assetId)
    ELSE IF Includes(assetId, Colon)
    THEN LET networkId == Split(assetId, Colon)[1]
         IN Or(Lookup(COINGECKO_COIN_IDS, networkId), networkId)
    ELSE assetId

getCoinGeckoId(assetId) ==
    IF Includes(assetId, Slash)
    THEN LET halves == Split(assetId, Slash)
             chain == Split(halves[1], Colon)
             chainNamespace == At(chain, 1)
             chainReference == At(chain, 2)
             assetNamespace == Split(halves[2], Colon)[1]
         IN IF chainNamespace = <<"bip122">> THEN <<"bitcoin">>
            ELSE IF chainNamespace = <<"eip155">> /\ assetNamespace = <<"slip44">>
            THEN Or(Lookup(coinGeckoChainIdMap, chainReference), <<"ethereum">>)
            ELSE LegacyCoinGeckoId(assetId)
    ELSE LegacyCoinGeckoId(assetId)

PriceData(assetId, coinId, source) ==
    [kind |-> "price", assetId |-> assetId, coinId |-> coinId,
     source |-> source]

\* CoinGeckoProvider.getERC20PriceByContract(assetId, currency)
getERC20PriceByContract(assetId, out, cache) ==
    LET code == "ERC20_PRICE_FETCH_ERROR"
        halves == Split(assetId, Slash)
        chainReference == At(Split(halves[1], Colon), 2)
        contractAddress == At(Split(halves[2], Colon), 2)
        platform == Lookup(platformMap, chainReference)
        ups == {Call("coingecko", "/simple/token_price", out)}
    IN IF ~Truthy(platform) THEN Ret(Fail(code), {}, cache)
       ELSE IF out \in Rejected THEN Caught(code, out, ups, cache)
       ELSE IF contractAddress = Undefined THEN Ret(Fail(code), ups, cache)
       ELSE IF out = "ok"
       THEN Ret(Ok(PriceData(assetId, contractAddress, "contract")), ups, cache)
       ELSE Ret(Fail(code), ups, cache)

\* CoinGeckoProvider.getPrice(assetId, currency)
CoinGeckoGetPrice(assetId, out1, out2, cache) ==
    LET code == "PRICE_FETCH_ERROR"
        coinId == getCoinGeckoId(assetId)
        ups == {Call("coingecko", "/simple/price", out1)}
        byContract == getERC20PriceByContract(assetId, out2, cache)
    IN IF out1 = "ok"
       THEN Ret(Ok(PriceData(assetId, coinId, "coin")), ups, cache)
       ELSE IF out1 = "nodata"
       THEN (IF IncludesSub(assetId, <<Slash, "erc20", Colon>>)
             THEN (IF byContract.threw
                   THEN Ret(Fail(code), ups \cup byContract.upstream, cache)
                   ELSE Ret(byContract.response,
                            ups \cup byContract.upstream, cache))
             ELSE Ret(Fail(code), ups, cache))
       ELSE Caught(code, out1, ups, cache)

\* CoinGeckoProvider.getPriceHistory(assetId, days, currency)
CoinGeckoGetPriceHistory(assetId, out, cache) ==
    LET coinId == getCoinGeckoId(assetId)
        ups == {Call("coingecko", "/coins/market_chart", out)}
        data == [kind |-> "priceHistory", assetId |-> assetId,
                 coinId |-> coinId]
    IN IF out = "ok" THEN Ret(Ok(data), ups, cache)
       ELSE Caught("HISTORY_FETCH_ERROR", out, ups, cache)

\* const result: Record<string, T> = {}
EmptyObject == [key \in {} |-> NoData]

\* obj[key] = value on a plain object; assigning to __proto__ adds no key
ObjectSet(obj, key, value) ==
    IF key = <<"__proto__">> THEN obj
    ELSE [k \in DOMAIN obj \cup {key} |-> IF k = key THEN value ELSE obj[k]]

\* whether obj[key] is truthy: an own key (the values stored are objects) or
\* a property every object inherits
ObjectHas(obj, key) ==
    key \in DOMAIN obj \/ (Len(key) = 1 /\ key[1] \in ObjectPrototypeKeys)

\* the loop of getMultiplePrices over assetIds; found = the coin ids the
\* answer has an entry for
RECURSIVE PricesOf(_, _, _)
PricesOf(assetIds, found, priced) ==
    IF assetIds = <<>> THEN priced
    ELSE LET assetId == Head(assetIds)
             coinId == getCoinGeckoId(assetId)
         IN PricesOf(Tail(assetIds), found,
                     IF coinId \in found
                     THEN ObjectSet(priced, assetId,
                                    PriceData(assetId, coinId, "coin"))
                     ELSE priced)

\* CoinGeckoProvider.getMultiplePrices(assetIds, currency)
CoinGeckoGetMultiplePrices(assetIds, found, out, cache) ==
    LET code == "MULTIPLE_PRICES_FETCH_ERROR"
        ups == {Call("coingecko", "/simple/price", out)}
        data == [kind |-> "prices",
                 results |-> PricesOf(assetIds,
                                      IF out = "ok" THEN found ELSE {},
                                      EmptyObject)]
    IN IF out \in {"ok", "nodata"} THEN Ret(Ok(data), ups, cache)
       ELSE IF out = "malformed" /\ assetIds = <<>>
       THEN Ret(Ok(data), ups, cache)
       ELSE Caught(code, out, ups, cache)

\* ---------------------------------------------------------------------
\* service/blockchain.service: BlockchainService
\* ---------------------------------------------------------------------
\* The results of the operations an operation awaited together, in the order
\* it started them; none for an operation that awaits a single provider call.
NoneJoined == <<>>

\* What a service operation leaves behind: the provider result, the set of
\* providers whose method the service called, and the AssetInfo it parsed.
Svc(r, inv, a) ==
    [response |-> r.response, upstream |-> r.upstream,
     providers |-> r.providers, threw |-> r.threw, invoked |-> inv,
     assetInfo |-> a, joined |-> NoneJoined]

\* try { ... } catch (error) { return { success: false, error: { code, ... } } }
\* around the body of every service operation.
ServiceCatchMissing(code, r) == r

ServiceCatch(code, r) ==
    IF r.threw THEN Ret(Fail(code), r.upstream, r.providers) ELSE r

\* BlockchainService.getBalance(address, assetId)
ServiceGetBalanceByNetwork(address, assetId, body, outs, first, cache) ==
    LET a == parseAssetId(assetId)
        bitcoin == a.thrown = "none" /\ a.networkId = <<"bitcoin">>
        r == IF a.thrown # "none" THEN Threw({}, cache)
             ELSE IF bitcoin THEN BitcoinGetBalance(body, outs[1], cache)
             ELSE AlchemyGetBalance(assetId, outs, first, cache)
        inv == IF a.thrown # "none" THEN {}
               ELSE IF bitcoin THEN {"bitcoin"} ELSE {"alchemy"}
    IN Svc(ServiceCatch("BALANCE_SERVICE_ERROR", r), inv, a)

ServiceGetBalance(address, assetId, body, outs, first, cache) ==
    LET a == parseAssetId(assetId)
        bitcoin == a.thrown = "none" /\ a.type = "bitcoin"
        r == IF a.thrown # "none" THEN Threw({}, cache)
             ELSE IF bitcoin THEN BitcoinGetBalance(body, outs[1], cache)
             ELSE AlchemyGetBalance(assetId, outs, first, cache)
        inv == IF a.thrown # "none" THEN {}
               ELSE IF bitcoin THEN {"bitcoin"} ELSE {"alchemy"}
    IN Svc(ServiceCatch("BALANCE_SERVICE_ERROR", r), inv, a)

\* BlockchainService.getGas(networkId, type)
ServiceGetGasNoBitcoinCheck(networkId, mode, out, cache) ==
    Svc(ServiceCatch("GAS_SERVICE_ERROR",
                     AlchemyGetGas(networkId, mode, out, cache)),
        {"alchemy"}, NotParsed)

ServiceGetGas(networkId, mode, out, cache) ==
    IF networkId = <<"bitcoin">>
    THEN Svc(Ret(Fail("UNSUPPORTED_NETWORK"), {}, cache), {}, NotParsed)
    ELSE Svc(ServiceCatch("GAS_SERVICE_ERROR",
                          AlchemyGetGas(networkId, mode, out, cache)),
             {"alchemy"}, NotParsed)

\* BlockchainService.getPrice(assetId, currency)
ServiceGetPrice(assetId, out1, out2, cache) ==
    Svc(ServiceCatch("PRICE_SERVICE_ERROR",
                     CoinGeckoGetPrice(assetId, out1, out2, cache)),
        {"coingecko"}, NotParsed)

\* BlockchainService.getPriceHistory(assetId, days, currency)
ServiceGetPriceHistory(assetId, out, cache) ==
    Svc(ServiceCatch("PRICE_HISTORY_SERVICE_ERROR",
                     CoinGeckoGetPriceHistory(assetId, out, cache)),
        {"coingecko"}, NotParsed)

\* BlockchainService.getHistory(address, assetId, page, limit)
ServiceGetHistory(address, assetId, body, out, cache) ==
    LET a == parseAssetId(assetId)
        bitcoin == a.thrown = "none" /\ a.type = "bitcoin"
        r == IF a.thrown # "none" THEN Threw({}, cache)
             ELSE IF bitcoin THEN BitcoinGetHistory(address, body, out, cache)
             ELSE AlchemyGetHistory(assetId, out, cache)
        inv == IF a.thrown # "none" THEN {}
               ELSE IF bitcoin THEN {"bitcoin"} ELSE {"alchemy"}
    IN Svc(ServiceCatch("HISTORY_SERVICE_ERROR", r), inv, a)

\* BlockchainService.getNftOwners(contractAddress, networkId, tokenId?)
ServiceGetNftOwners(contractAddress, networkId, tokenId, body, out, cache) ==
    IF networkId = <<"bitcoin">>
    THEN Svc(Ret(Fail("UNSUPPORTED_NETWORK"), {}, cache), {}, NotParsed)
    ELSE Svc(ServiceCatch("NFT_OWNERS_SERVICE_ERROR",
                          AlchemyGetNftOwners(contractAddress, networkId,
                                              tokenId, body, out, cache)),
             {"alchemy"}, NotParsed)

\* BlockchainService.getNftsForOwner(owner, networkId, contractAddress?)
ServiceGetNftsForOwner(networkId, out, cache) ==
    IF networkId = <<"bitcoin">>
    THEN Svc(Ret(Fail("UNSUPPORTED_NETWORK"), {}, cache), {}, NotParsed)
    ELSE Svc(ServiceCatch("NFTS_FOR_OWNER_SERVICE_ERROR",
                          AlchemyGetNftsForOwner(networkId, out, cache)),
             {"alchemy"}, NotParsed)

\* the fixed record getTokenMetadata builds for Bitcoin
BitcoinMetadataEtherDecimals ==
    [kind |-> "tokenMetadata", name |-> <<"Bitcoin">>, symbol |-> <<"BTC">>,
     decimals |-> 18, assetId |-> <<"bitcoin">>, networkId |-> <<"bitcoin">>,
     type |-> "native"]

BitcoinMetadata ==
    [kind |-> "tokenMetadata", name |-> <<"Bitcoin">>, symbol |-> <<"BTC">>,
     decimals |-> 8, assetId |-> <<"bitcoin">>, networkId |-> <<"bitcoin">>,
     type |-> "native"]

\* BlockchainService.getTokenMetadata(assetId)
ServiceGetTokenMetadata(assetId, outs, first, cache) ==
    LET a == parseAssetId(assetId)
        bitcoin == a.thrown = "none" /\ a.type = "bitcoin"
        r == IF a.thrown # "none" THEN Threw({}, cache)
             ELSE IF bitcoin THEN Ret(Ok(BitcoinMetadata), {}, cache)
             ELSE AlchemyGetTokenMetadata(assetId, outs, first, cache)
        inv == IF a.thrown # "none" \/ bitcoin THEN {} ELSE {"alchemy"}
    IN Svc(ServiceCatch("TOKEN_METADATA_SERVICE_ERROR", r), inv, a)

\* BlockchainService.getNftMetadata(assetId)
ServiceGetNftMetadata(assetId, out, cache) ==
    LET a == parseAssetId(assetId)
        bitcoin == a.thrown = "none" /\ a.type = "bitcoin"
        r == IF a.thrown # "none" THEN Threw({}, cache)
             ELSE IF bitcoin THEN Ret(Fail("UNSUPPORTED_ASSET_TYPE"), {}, cache)
             ELSE AlchemyGetNftMetadata(assetId, out, cache)
        inv == IF a.thrown # "none" \/ bitcoin THEN {} ELSE {"alchemy"}
    IN Svc(ServiceCatch("NFT_METADATA_SERVICE_ERROR", r), inv, a)

\* the element of a one-element set: The({F(v) : v \in {e}}) is F(e), with e
\* worked out once
The(S) == CHOOSE v \in S : TRUE

\* the getBalance calls of assetIds.map(async assetId => ...): each runs up
\* to its first await, getProvider included, before the next one starts;
\* ins[i] is what the upstream calls of the i-th one come to.
RECURSIVE SubBalances(_, _, _, _)
SubBalances(address, assetIds, ins, cache) ==
    IF assetIds = <<>> THEN <<>>
    ELSE The({<<r>> \o SubBalances(address, Tail(assetIds), Tail(ins),
                                   r.providers) :
                  r \in {ServiceGetBalance(address, Head(assetIds),
                                           Head(ins).body, Head(ins).outs,
                                           Head(ins).first, cache)}})

\* if (result.success && result.data) results[assetId] = result.data
StoreAlways(results, assetId, balance) ==
    ObjectSet(results, assetId, balance.data)

Store(results, assetId, balance) ==
    IF balance.success /\ balance.data # NoData
    THEN ObjectSet(results, assetId, balance.data)
    ELSE results

\* the callbacks run as their getBalance calls complete; order lists the
\* positions in the order of completion.
RECURSIVE Collected(_, _, _, _)
Collected(assetIds, subs, order, results) ==
    IF order = <<>> THEN results
    ELSE The({Collected(assetIds, subs, Tail(order), written) :
                  written \in {Store(results, assetIds[Head(order)],
                                     subs[Head(order)].response)}})

\* an operation that awaited others: its result and theirs
Awaited(r, inv, results) == [Svc(r, inv, NotParsed) EXCEPT !.joined = results]

\* BlockchainService.getMultipleBalances(address, assetIds)
MultipleBalances(assetIds, subs, order, cache) ==
    LET positions == 1..Len(subs)
        last == IF subs = <<>> THEN cache ELSE subs[Len(subs)].providers
        ups == UNION {subs[i].upstream : i \in positions}
        inv == UNION {subs[i].invoked : i \in positions}
        data == [kind |-> "balances",
                 results |-> Collected(assetIds, subs, order, EmptyObject)]
        r == IF \E i \in positions : subs[i].threw THEN Threw(ups, last)
             ELSE Ret(Ok(data), ups, last)
    IN Awaited(ServiceCatch("MULTIPLE_BALANCES_SERVICE_ERROR", r), inv,
               [i \in positions |-> subs[i].response])

ServiceGetMultipleBalances(address, assetIds, ins, order, cache) ==
    The({MultipleBalances(assetIds, subs, order, cache) :
             subs \in {SubBalances(address, assetIds, ins, cache)}})

\* BlockchainService.getMultiplePrices(assetIds, currency)
ServiceGetMultiplePrices(assetIds, found, out, cache) ==
    Svc(ServiceCatch("MULTIPLE_PRICES_SERVICE_ERROR",
                     CoinGeckoGetMultiplePrices(assetIds, found, out, cache)),
        {"coingecko"}, NotParsed)

\* the loop of getPortfolioSummary over assetIds: an entry for every assetId
\* with a truthy balances[assetId] and prices[assetId]
RECURSIVE Portfolio(_, _, _)
Portfolio(assetIds, balances, prices) ==
    IF assetIds = <<>> THEN <<>>
    ELSE LET assetId == Head(assetIds)
             entry == [assetId |-> assetId,
                       balance |-> IF assetId \in DOMAIN balances
                                   THEN balances[assetId]
                                   ELSE [kind |-> "inherited"],
                       price |-> IF assetId \in DOMAIN prices
                                 THEN prices[assetId]
                                 ELSE [kind |-> "inherited"]]
         IN (IF ObjectHas(balances, assetId) /\ ObjectHas(prices, assetId)
             THEN <<entry>> ELSE <<>>)
                \o Portfolio(Tail(assetIds), balances, prices)

\* BlockchainService.getPortfolioSummary(address, assetIds, currency)
PortfolioSummary(assetIds, balancesResult, pricesResult) ==
    LET ups == balancesResult.upstream \cup pricesResult.upstream
        inv == balancesResult.invoked \cup pricesResult.invoked
        last == balancesResult.providers
        data == [kind |-> "portfolio",
                 portfolio |->
                     Portfolio(assetIds, balancesResult.response.data.results,
                               pricesResult.response.data.results)]
        r == IF balancesResult.threw \/ pricesResult.threw
             THEN Threw(ups, last)
             ELSE IF ~balancesResult.response.success
                         \/ ~pricesResult.response.success
             THEN Threw(ups, last)
             ELSE Ret(Ok(data), ups, last)
    IN Awaited(ServiceCatch("PORTFOLIO_SUMMARY_SERVICE_ERROR", r), inv,
               <<balancesResult.response, pricesResult.response>>)

ServiceGetPortfolioSummary(address, assetIds, ins, order, found, out, cache) ==
    The({PortfolioSummary(assetIds, balancesResult, pricesResult) :
             balancesResult \in {ServiceGetMultipleBalances(address, assetIds,
                                                            ins, order, cache)},
             pricesResult \in {ServiceGetMultiplePrices(assetIds, found, out,
                                                        cache)}})

\* ---------------------------------------------------------------------
\* Inputs
\* ---------------------------------------------------------------------
\* Segments of legacy identifiers: the first one names the network.
FirstSegments == {<<"bitcoin">>, <<"ethereum">>, <<"dogecoin">>, <<>>}
RestSegments == {<<"0xabc">>, <<"7">>, <<>>}

LegacyIds ==
    UNION {{Join(<<f>> \o r, Colon) :
                f \in FirstSegments, r \in [1..(n - 1) -> RestSegments]} :
           n \in 1..MaxLegacySegments}

\* Chain parts, asset namespaces, asset references and trailers of CAIP
\* identifiers.
ChainParts ==
    {<<"eip155", Colon, "1">>, <<"eip155", Colon, "137">>,
     <<"eip155", Colon, "42161">>, <<"eip155", Colon, "10">>,
     <<"eip155", Colon, "8453">>, <<"eip155", Colon, "999">>,
     <<"eip155", Colon, "constructor">>, <<"eip155", Colon>>, <<"eip155">>,
     <<"bip122", Colon, "000">>, <<"bip122">>, <<"cosmos", Colon, "hub">>}

AssetNamespaces ==
    {<<"slip44">>, <<"erc20">>, <<"erc721">>, <<"erc1155">>, <<"foo">>, <<>>}

Trailers == {<<>>, <<Slash, "x">>}

CaipIds ==
    UNION {{c \o <<Slash>> \o Join(<<ns>> \o r, Colon) \o t :
                c \in ChainParts, ns \in AssetNamespaces,
                r \in [1..n -> RestSegments], t \in Trailers} :
           n \in 0..MaxRefSegments}

ParserInputs == LegacyIds \cup CaipIds

\* The identifiers the service operations are driven with.
ServiceAssetIds ==
    {<<"bitcoin">>, <<"ethereum">>, <<"dogecoin">>, <<"constructor">>,
     <<"ethereum", Colon, "0xabc">>, <<"ethereum", Colon, "0xabc", Colon, "7">>,
     <<"bitcoin", Colon, "0xabc">>, <<"bitcoin", Colon, "0xabc", Colon, "7">>,
     <<"dogecoin", Colon, "0xabc", Colon, "7">>, <<"polygon", Colon, "0xabc">>,
     <<"ethereum", Colon, "0xabc", Colon, "7", Colon, "7">>,
     <<"bip122", Colon, "000", Slash, "slip44", Colon, "0">>,
     <<"bip122", Colon, "000", Slash, "erc20", Colon, "0xabc">>,
     <<"bip122", Colon, "000", Slash, "erc721", Colon, "0xabc", Colon, "7">>,
     <<"eip155", Colon, "1", Slash, "slip44", Colon, "60">>,
     <<"eip155", Colon, "1", Slash, "erc20", Colon, "0xabc">>,
     <<"eip155", Colon, "137", Slash, "erc721", Colon, "0xabc", Colon, "7">>,
     <<"eip155", Colon, "1", Slash, "erc1155", Colon, "0xabc">>,
     <<"eip155", Colon, "999", Slash, "slip44", Colon, "60">>,
     <<"eip155", Colon, "999", Slash, "erc20", Colon, "0xabc">>,
     <<"eip155", Colon, "constructor", Slash, "slip44", Colon, "60">>,
     <<"eip155", Colon, "1", Slash, "foo", Colon, "bar">>,
     <<"cosmos", Colon, "hub", Slash, "slip44", Colon, "118">>}

ServiceNetworkIds ==
    {<<"bitcoin">>, <<"ethereum">>, <<"polygon">>, <<"dogecoin">>,
     <<"constructor">>, <<>>}

Modes == {"legacy", "eip1559"}

\* The address asked about and the bodies the Blockstream API answers with.
Addresses == {<<"bc1qme">>}
TxAddresses == {<<"bc1qme">>, <<"bc1qother">>}
OutputValues == {50000, 100000000}
StatSums == {0, 1500, 100000000, 150001500, 2100000000}

\* chain_stats of an address: what was spent was funded before
StatBodies ==
    {b \in [funded_txo_sum : StatSums, spent_txo_sum : StatSums] :
         b.funded_txo_sum >= b.spent_txo_sum}

TxIns == UNION {[1..n -> TxAddresses \cup {Undefined}] : n \in 0..MaxIns}
TxOuts ==
    UNION {[1..n -> [scriptpubkey_address : TxAddresses, value : OutputValues]] :
           n \in 0..MaxOuts}
Txs == [vin : TxIns, vout : TxOuts]
PlainTxs == {t \in Txs : Len(t.vin) = 1 /\ Len(t.vout) = 1}

\* pages of no, one and two transactions
TxBodies ==
    {<<>>} \cup {<<t>> : t \in Txs} \cup {<<t, u>> : t \in PlainTxs, u \in PlainTxs}

\* The bodies the service operations are driven with: a funded address, and
\* pages with a spend from the address, a payment to it, and a transaction
\* that has it on both sides.
Pays(address, value) == [scriptpubkey_address |-> address, value |-> value]

ServiceStatBodies ==
    {[funded_txo_sum |-> 150001500, spent_txo_sum |-> 1500],
     [funded_txo_sum |-> 0, spent_txo_sum |-> 0]}

ServiceTxBodies ==
    {<<>>,
     <<[vin |-> <<<<"bc1qme">>>>, vout |-> <<Pays(<<"bc1qother">>, 50000)>>]>>,
     <<[vin |-> <<<<"bc1qother">>>>, vout |-> <<Pays(<<"bc1qme">>, 50000)>>],
       [vin |-> <<<<"bc1qme">>>>,
        vout |-> <<Pays(<<"bc1qother">>, 100000000),
                   Pays(<<"bc1qme">>, 50000)>>]>>}

\* The owners the Alchemy API lists for a collection or a token: the i-th
\* entry is about the i-th owner.
OwnerAt(i) == <<"0x", NumberToString(i)>>

BalanceEntries ==
    {[tokenId |-> <<"7">>, balance |-> Undefined],
     [tokenId |-> Undefined, balance |-> <<"2">>]}

TokenBalanceValues ==
    {NoBalances, NotAnArray} \cup
    UNION {{Balances(b) : b \in [1..n -> BalanceEntries]} : n \in 0..MaxBalances}

CollectionBodies ==
    UNION {{[i \in 1..n |-> [ownerAddress |-> OwnerAt(i),
                             tokenBalances |-> f[i]]] :
                f \in [1..n -> TokenBalanceValues]} :
           n \in 0..MaxOwners}

TokenBodies == {[i \in 1..n |-> OwnerAt(i)] : n \in 0..MaxOwners}

\* the bodies the service operations are driven with: an owner of two tokens
\* followed by one listed without balances, and two owners of one token
ServiceCollectionBodies ==
    {<<>>,
     <<[ownerAddress |-> OwnerAt(1),
        tokenBalances |-> Balances(<<[tokenId |-> <<"7">>, balance |-> <<"2">>],
                                     [tokenId |-> <<"8">>,
                                      balance |-> Undefined]>>)],
       [ownerAddress |-> OwnerAt(2), tokenBalances |-> NoBalances]>>}

ServiceTokenBodies == {<<OwnerAt(1), OwnerAt(2)>>}

\* an answer has a list of owners only when it is a good one
OwnerBodiesFor(tokenId, out, collections, tokens) ==
    IF out # "ok" THEN {NoBody}
    ELSE IF Truthy(tokenId) THEN tokens
    ELSE collections

\* The lists of identifiers the joined operations are driven with, what the
\* upstream calls of each getBalance come to, and the orders in which the
\* getBalance calls can complete.
MultiAssetIds ==
    {<<"ethereum">>, <<"polygon", Colon, "0xabc">>, <<"bitcoin">>,
     <<"constructor">>}

AssetLists == UNION {[1..n -> MultiAssetIds] : n \in 0..MaxAssets}

SubOutcomes == {"ok", "reject", "rejectNullish"}

SubInput(out) ==
    [body |-> IF out = "ok" THEN [funded_txo_sum |-> 150001500,
                                  spent_txo_sum |-> 1500]
              ELSE NoBody,
     outs |-> <<out, "ok">>, first |-> 1]

Orders(n) ==
    {p \in [1..n -> 1..n] : \A i \in 1..n, j \in 1..n : p[i] = p[j] => i = j}

Identity(n) == [i \in 1..n |-> i]

\* the coin ids an answer of /simple/price can have entries for
CoinIdsOf(assetIds) ==
    {c \in {getCoinGeckoId(assetIds[i]) : i \in 1..Len(assetIds)} : IsString(c)}

\* The model follows the body of an answer only for identifiers on the
\* bitcoin network, the ones the Blockstream API can be asked about, and an
\* answer has a body only when it is a good one.
BodiesFor(assetId, out, bodies) ==
    IF out = "ok" /\ parseAssetId(assetId).networkId = <<"bitcoin">>
    THEN bodies
    ELSE {NoBody}

\* ---------------------------------------------------------------------
\* State machine
\* ---------------------------------------------------------------------
Req(assetId, networkId, contractAddress, tokenId, mode) ==
    [address |-> Undefined, assetId |-> assetId, assetIds |-> <<>>,
     networkId |-> networkId,
     contractAddress |-> contractAddress, tokenId |-> tokenId, mode |-> mode]

\* the request of the joined operations: an address and a list of identifiers
ReqList(address, assetIds) ==
    [Req(Undefined, Undefined, Undefined, Undefined, "none")
        EXCEPT !.address = address, !.assetIds = assetIds]

\* the request of getBalance and getHistory: an address and an identifier
ReqAt(address, assetId) ==
    [Req(assetId, Undefined, Undefined, Undefined, "none")
        EXCEPT !.address = address]

NoRequest == Req(Undefined, Undefined, Undefined, Undefined, "none")

\* what the pure function applied last returned; the service operations
\* leave it alone
NoResult == Undefined

Init ==
    /\ apiKey \in {"", "key"}
    /\ providers = EmptyCache
    /\ op = "init"
    /\ request = NoRequest
    /\ assetInfo = NotParsed
    /\ response = NoResponse
    /\ invoked = {}
    /\ upstream = {}
    /\ thrown = FALSE
    /\ result = NoResult
    /\ joined = NoneJoined

\* The effect of one service operation.
Finish(name, req, r) ==
    /\ op = "init"
    /\ op' = name
    /\ request' = req
    /\ assetInfo' = r.assetInfo
    /\ response' = r.response
    /\ invoked' = r.invoked
    /\ upstream' = r.upstream
    /\ thrown' = r.threw
    /\ providers' = r.providers
    /\ joined' = r.joined
    /\ UNCHANGED <<apiKey, result>>

\* The response has been handed to the caller; the service waits for the
\* next request.  The per-network client cache lives on.
Respond ==
    /\ op # "init"
    /\ op' = "init"
    /\ request' = NoRequest
    /\ assetInfo' = NotParsed
    /\ response' = NoResponse
    /\ invoked' = {}
    /\ upstream' = {}
    /\ thrown' = FALSE
    /\ joined' = NoneJoined
    /\ UNCHANGED <<apiKey, providers, result>>

GetBalance ==
    \E address \in Addresses, id \in ServiceAssetIds,
       o1 \in Outcomes, o2 \in Outcomes, first \in 1..2 :
        \E body \in BodiesFor(id, o1, ServiceStatBodies) :
            Finish("getBalance", ReqAt(address, id),
                   ServiceGetBalance(address, id, body, <<o1, o2>>, first,
                                     providers))

GetGas ==
    \E net \in ServiceNetworkIds, mode \in Modes, o \in Outcomes :
        Finish("getGas", Req(Undefined, net, Undefined, Undefined, mode),
               ServiceGetGas(net, mode, o, providers))

GetPrice ==
    \E id \in ServiceAssetIds, o1 \in Outcomes, o2 \in Outcomes :
        Finish("getPrice", Req(id, Undefined, Undefined, Undefined, "none"),
               ServiceGetPrice(id, o1, o2, providers))

GetPriceHistory ==
    \E id \in ServiceAssetIds, o \in Outcomes :
        Finish("getPriceHistory",
               Req(id, Undefined, Undefined, Undefined, "none"),
               ServiceGetPriceHistory(id, o, providers))

GetHistory ==
    \E address \in Addresses, id \in ServiceAssetIds, o \in Outcomes :
        \E body \in BodiesFor(id, o, ServiceTxBodies) :
            Finish("getHistory", ReqAt(address, id),
                   ServiceGetHistory(address, id, body, o, providers))

GetNftOwners ==
    \E net \in ServiceNetworkIds, token \in {Undefined, <<"7">>},
       o \in Outcomes :
        \E body \in OwnerBodiesFor(token, o, ServiceCollectionBodies,
                                   ServiceTokenBodies) :
            Finish("getNftOwners",
                   Req(Undefined, net, <<"0xabc">>, token, "none"),
                   ServiceGetNftOwners(<<"0xabc">>, net, token, body, o,
                                       providers))

GetNftsForOwner ==
    \E net \in ServiceNetworkIds, contract \in {Undefined, <<"0xabc">>},
       o \in Outcomes :
        Finish("getNftsForOwner",
               Req(Undefined, net, contract, Undefined, "none"),
               ServiceGetNftsForOwner(net, o, providers))

GetTokenMetadata ==
    \E id \in ServiceAssetIds, o1 \in Outcomes, o2 \in Outcomes, first \in 1..4 :
        Finish("getTokenMetadata",
               Req(id, Undefined, Undefined, Undefined, "none"),
               ServiceGetTokenMetadata(id, <<o1, "ok", o2, "ok">>, first,
                                       providers))

GetNftMetadata ==
    \E id \in ServiceAssetIds, o \in Outcomes :
        Finish("getNftMetadata",
               Req(id, Undefined, Undefined, Undefined, "none"),
               ServiceGetNftMetadata(id, o, providers))

Next ==
    \/ GetBalance
    \/ GetGas
    \/ GetPrice
    \/ GetPriceHistory
    \/ GetHistory
    \/ GetNftOwners
    \/ GetNftsForOwner
    \/ GetTokenMetadata
    \/ GetNftMetadata
    \/ Respond

Spec == Init /\ [][Next]_vars

ServiceOps ==
    {"getBalance", "getGas", "getPrice", "getPriceHistory", "getHistory",
     "getNftOwners", "getNftsForOwner", "getTokenMetadata", "getNftMetadata"}

\* The two operations on the bitcoin asset on their own, over every body of
\* the Blockstream API within the bounds.
BitcoinBalance ==
    \E address \in Addresses, o \in Outcomes :
        \E body \in BodiesFor(<<"bitcoin">>, o, StatBodies) :
            Finish("getBalance", ReqAt(address, <<"bitcoin">>),
                   ServiceGetBalance(address, <<"bitcoin">>, body, <<o, o>>, 1,
                                     providers))

BitcoinHistory ==
    \E address \in Addresses, o \in Outcomes :
        \E body \in BodiesFor(<<"bitcoin">>, o, TxBodies) :
            Finish("getHistory", ReqAt(address, <<"bitcoin">>),
                   ServiceGetHistory(address, <<"bitcoin">>, body, o,
                                     providers))

NextBitcoin == BitcoinBalance \/ BitcoinHistory

SpecBitcoin == Init /\ [][NextBitcoin]_vars

\* getNftOwners on its own, over every list of owners within the bounds.
CollectionOwnersOf ==
    \E net \in {<<"ethereum">>, <<"polygon">>}, o \in Outcomes :
        \E body \in OwnerBodiesFor(Undefined, o, CollectionBodies, TokenBodies) :
            Finish("getNftOwners",
                   Req(Undefined, net, <<"0xabc">>, Undefined, "none"),
                   ServiceGetNftOwners(<<"0xabc">>, net, Undefined, body, o,
                                       providers))

TokenOwnersOf ==
    \E net \in {<<"ethereum">>, <<"polygon">>}, o \in Outcomes :
        \E body \in OwnerBodiesFor(<<"7">>, o, CollectionBodies, TokenBodies) :
            Finish("getNftOwners",
                   Req(Undefined, net, <<"0xabc">>, <<"7">>, "none"),
                   ServiceGetNftOwners(<<"0xabc">>, net, <<"7">>, body, o,
                                       providers))

NextNftOwners == CollectionOwnersOf \/ TokenOwnersOf

SpecNftOwners == Init /\ [][NextNftOwners]_vars

\* The joined operations on their own, over every list of identifiers within
\* the bounds.
GetMultipleBalances ==
    \E address \in Addresses, assetIds \in AssetLists :
        \E outs \in [1..Len(assetIds) -> SubOutcomes],
           order \in Orders(Len(assetIds)) :
            Finish("getMultipleBalances", ReqList(address, assetIds),
                   ServiceGetMultipleBalances(
                       address, assetIds,
                       [i \in 1..Len(assetIds) |-> SubInput(outs[i])],
                       order, providers))

GetMultiplePrices ==
    \E assetIds \in AssetLists, out \in Outcomes :
        \E found \in (IF out = "ok" THEN SUBSET CoinIdsOf(assetIds) ELSE {{}}) :
            Finish("getMultiplePrices", ReqList(Undefined, assetIds),
                   ServiceGetMultiplePrices(assetIds, found, out, providers))

\* the getBalance calls complete in the order of the list here
GetPortfolioSummary ==
    \E address \in Addresses, assetIds \in AssetLists,
       out \in {"ok", "reject"} :
        \E outs \in [1..Len(assetIds) -> {"ok", "reject"}],
           found \in (IF out = "ok" THEN SUBSET CoinIdsOf(assetIds)
                      ELSE {{}}) :
            Finish("getPortfolioSummary", ReqList(address, assetIds),
                   ServiceGetPortfolioSummary(
                       address, assetIds,
                       [i \in 1..Len(assetIds) |-> SubInput(outs[i])],
                       Identity(Len(assetIds)), found, out, providers))

NextJoined == GetMultipleBalances \/ GetMultiplePrices \/ GetPortfolioSummary

SpecJoined == Init /\ [][NextJoined]_vars

\* The parser on its own: parseAssetId applied to any identifier.
InitParser ==
    /\ apiKey = "key"
    /\ providers = EmptyCache
    /\ op = "init"
    /\ request \in {Req(id, Undefined, Undefined, Undefined, "none") :
                        id \in ParserInputs}
    /\ assetInfo = NotParsed
    /\ response = NoResponse
    /\ invoked = {}
    /\ upstream = {}
    /\ thrown = FALSE
    /\ result = NoResult
    /\ joined = NoneJoined

ParseAssetId ==
    /\ op = "init"
    /\ op' = "parseAssetId"
    /\ assetInfo' = parseAssetId(request.assetId)
    /\ UNCHANGED <<apiKey, providers, request, response, invoked, upstream,
                   thrown, result, joined>>

\* buildAssetId applied to the fields of the AssetInfo just parsed
BuildAssetId ==
    /\ op = "parseAssetId"
    /\ assetInfo.thrown = "none"
    /\ op' = "buildAssetId"
    /\ result' = buildAssetId(assetInfo.networkId, assetInfo.contractAddress,
                              assetInfo.tokenId)
    /\ UNCHANGED <<apiKey, providers, request, assetInfo, response, invoked,
                   upstream, thrown, joined>>

NextParser == ParseAssetId \/ BuildAssetId

SpecParser == InitParser /\ [][NextParser]_vars

\* The unit conversions on their own.  An amount in base units is a whole
\* part of up to MaxIntegerDigits digits followed by d fraction digits:
\* zeros, a core of up to MaxCoreDigits digits, zeros.
AmountDigits == {"0", "1", "5", "9"}

WholeParts ==
    UNION {{w \in [1..n -> AmountDigits] : n > 0 => w[1] # "0"} :
           n \in 0..MaxIntegerDigits}

Cores ==
    UNION {{c \in [1..n -> AmountDigits] : c[1] # "0" /\ c[n] # "0"} :
           n \in 1..MaxCoreDigits}

Fractions(d) ==
    {[i \in 1..d |-> "0"]} \cup
    {[i \in 1..z |-> "0"] \o c \o [i \in 1..(d - z - Len(c)) |-> "0"] :
         <<z, c>> \in {zc \in (0..d) \X Cores : zc[1] + Len(zc[2]) <= d}}

\* the decimal strings of the amounts: no leading zeros, "0" for zero
Amounts(d) ==
    {BigIntToString(BigInt(w \o f)) : w \in WholeParts, f \in Fractions(d)}

Conversion(d, base, human, back) ==
    [decimals |-> d, base |-> base, human |-> human, back |-> back]

InitUnits ==
    /\ apiKey = "key"
    /\ providers = EmptyCache
    /\ op = "init"
    /\ request = NoRequest
    /\ assetInfo = NotParsed
    /\ response = NoResponse
    /\ invoked = {}
    /\ upstream = {}
    /\ thrown = FALSE
    /\ joined = NoneJoined
    /\ result \in {Conversion(d, b, Undefined, Undefined) :
                       d \in {EtherDecimals}, b \in Amounts(EtherDecimals)}
                  \cup {Conversion(d, b, Undefined, Undefined) :
                       d \in {BitcoinDecimals}, b \in Amounts(BitcoinDecimals)}

Converted(name, r) ==
    /\ op' = name
    /\ result' = r
    /\ UNCHANGED <<apiKey, providers, request, assetInfo, response, invoked,
                   upstream, thrown, joined>>

WeiToEther ==
    /\ op = "init" /\ result.decimals = EtherDecimals
    /\ Converted("weiToEther",
                 [result EXCEPT !.human = weiToEther(result.base)])

EtherToWei ==
    /\ op = "weiToEther"
    /\ Converted("etherToWei",
                 [result EXCEPT !.back = etherToWei(result.human)])

SatoshiToBitcoin ==
    /\ op = "init" /\ result.decimals = BitcoinDecimals
    /\ Converted("satoshiToBitcoin",
                 [result EXCEPT !.human = satoshiToBitcoin(result.base)])

BitcoinToSatoshi ==
    /\ op = "satoshiToBitcoin"
    /\ Converted("bitcoinToSatoshi",
                 [result EXCEPT !.back = bitcoinToSatoshi(result.human)])

NextUnits == WeiToEther \/ EtherToWei \/ SatoshiToBitcoin \/ BitcoinToSatoshi

SpecUnits == InitUnits /\ [][NextUnits]_vars

\* ---------------------------------------------------------------------
\* Properties
\* ---------------------------------------------------------------------
\* Reading an identifier the way the grammar of the specification does.
FirstIndex(s, sep) ==
    CHOOSE i \in 1..Len(s) : s[i] = sep /\ \A j \in 1..(i - 1) : s[j] # sep

\* the text of s before its first sep (all of s when it holds none)
Before(s, sep) ==
    IF Includes(s, sep) THEN SubSeq(s, 1, FirstIndex(s, sep) - 1) ELSE s

\* the text of s after its first sep (empty when it holds none)
After(s, sep) ==
    IF Includes(s, sep) THEN SubSeq(s, FirstIndex(s, sep) + 1, Len(s))
    ELSE <<>>

IsCaip(id) == Includes(id, Slash)
ChainPartOf(id) == Before(id, Slash)
ChainNamespaceOf(id) == Before(ChainPartOf(id), Colon)
HasChainReference(id) == Includes(ChainPartOf(id), Colon)
ChainReferenceOf(id) == After(ChainPartOf(id), Colon)
\* everything after the first "/"
AssetPartOf(id) == After(id, Slash)
\* the asset part up to a second "/"
AssetSegmentOf(id) == Before(AssetPartOf(id), Slash)
AssetNamespaceOf(id) == Before(AssetSegmentOf(id), Colon)
SupportedChain(id) == ChainNamespaceOf(id) \in {<<"bip122">>, <<"eip155">>}

Parsed == op = "parseAssetId"
Accepted == assetInfo.thrown = "none"
ParseStepFailed == assetInfo.thrown \notin {"none", "not parsed"}
ProviderCallFailed == \E c \in upstream : c.outcome \in Rejected
Populated(data) == data.kind \notin {"absent", "null"}
UnsupportedCodes == {"UNSUPPORTED_NETWORK", "UNSUPPORTED_ASSET_TYPE"}

\* C1: every one of the nine service operations ends by returning an
\* envelope, never by throwing; when its parse step failed or an upstream
\* call was rejected the envelope has success = false and an error code.
C1_OperationsAlwaysReturnEnvelope ==
    op \in ServiceOps =>
        /\ ~thrown
        /\ response.success \/ response.error # NoError
        /\ (ParseStepFailed \/ ProviderCallFailed) =>
               (~response.success /\ response.error # NoError)

C1_Witness ==
    /\ op = "getPrice"
    /\ \E c \in upstream : c.outcome = "rejectNullish"
    /\ response = Fail("PRICE_SERVICE_ERROR")

\* C2: every envelope a service operation returns has data populated exactly
\* when success is true and an error exactly when success is false.
C2_ExactlyOneOfDataError ==
    op \in ServiceOps =>
        /\ Populated(response.data) <=> response.success
        /\ response.error # NoError <=> ~response.success

\* C3: for an accepted assetId, getBalance and getHistory call the Bitcoin
\* provider and only it when the parsed type is bitcoin, and the Alchemy
\* provider and only it otherwise; every upstream request of the operation
\* goes to that provider.
C3_BalanceHistoryOneProvider ==
    (op \in {"getBalance", "getHistory"} /\ Accepted) =>
        /\ invoked = (IF assetInfo.type = "bitcoin" THEN {"bitcoin"}
                      ELSE {"alchemy"})
        /\ \A c \in upstream : c.provider \in invoked

C3_Witness ==
    /\ op = "getBalance"
    /\ request.assetId = <<"bitcoin", Colon, "0xabc">>
    /\ invoked = {"alchemy"}

\* C4: getGas for networkId "bitcoin", in either mode, returns success =
\* false with an unsupported-class error code, does not throw and neither
\* calls the Alchemy provider nor sends a request upstream.
C4_GasOnBitcoinUnsupported ==
    (op = "getGas" /\ request.networkId = <<"bitcoin">>) =>
        /\ ~thrown
        /\ ~response.success
        /\ response.error \in UnsupportedCodes
        /\ invoked = {}
        /\ upstream = {}

C4_Witness ==
    /\ op = "getGas"
    /\ request.networkId = <<"bitcoin">>
    /\ request.mode = "legacy"
    /\ response = Fail("UNSUPPORTED_NETWORK")

\* C5: getNftOwners and getNftsForOwner for networkId bitcoin, and
\* getNftMetadata for an assetId that resolves to the bitcoin network, fail
\* with an unsupported-class error code and do not call the Alchemy provider.
C5_NftOnBitcoinUnsupported ==
    (\/ op \in {"getNftOwners", "getNftsForOwner"}
           /\ request.networkId = <<"bitcoin">>
     \/ op = "getNftMetadata" /\ Accepted
           /\ assetInfo.networkId = <<"bitcoin">>) =>
        /\ ~response.success
        /\ response.error \in UnsupportedCodes
        /\ "alchemy" \notin invoked

\* C6: getTokenMetadata for an assetId of parsed type bitcoin returns
\* success with the record (Bitcoin, BTC, 8 decimals, network bitcoin, type
\* native) and calls no provider; for any other parsed type it calls the
\* Alchemy provider and no other.
C6_TokenMetadataRouting ==
    (op = "getTokenMetadata" /\ Accepted) =>
        IF assetInfo.type = "bitcoin"
        THEN /\ response.success
             /\ response.data.name = <<"Bitcoin">>
             /\ response.data.symbol = <<"BTC">>
             /\ response.data.decimals = 8
             /\ response.data.networkId = <<"bitcoin">>
             /\ response.data.type = "native"
             /\ invoked = {}
             /\ upstream = {}
        ELSE /\ invoked = {"alchemy"}
             /\ \A c \in upstream : c.provider = "alchemy"

C6_Witness ==
    /\ op = "getTokenMetadata"
    /\ request.assetId = <<"bip122", Colon, "000", Slash, "slip44", Colon, "0">>
    /\ response.success

\* C7: a CAIP identifier whose chain namespace is bip122 parses to networkId
\* bitcoin and type bitcoin, whatever its asset namespace and chain
\* reference; stated here for the four asset namespaces the claim names
\* (slip44, erc20, erc721, erc1155).
C7_Bip122IsBitcoin ==
    (Parsed /\ IsCaip(request.assetId)
        /\ ChainNamespaceOf(request.assetId) = <<"bip122">>
        /\ AssetNamespaceOf(request.assetId) \in
               {<<"slip44">>, <<"erc20">>, <<"erc721">>, <<"erc1155">>}) =>
        /\ Accepted
        /\ assetInfo.networkId = <<"bitcoin">>
        /\ assetInfo.type = "bitcoin"

\* the table of the specification: chain reference -> network name
ChainTable ==
    <<"1">> :> <<"ethereum">> @@ <<"137">> :> <<"polygon">> @@
    <<"42161">> :> <<"arbitrum">> @@ <<"10">> :> <<"optimism">> @@
    <<"8453">> :> <<"base">>

\* C8: an accepted CAIP identifier with chain namespace eip155 gets its
\* networkId from the table, and the string eip155:<reference> for every
\* chain reference outside the table.
C8_Eip155NetworkId ==
    (Parsed /\ IsCaip(request.assetId) /\ Accepted
        /\ ChainNamespaceOf(request.assetId) = <<"eip155">>
        /\ HasChainReference(request.assetId)) =>
        LET ref == ChainReferenceOf(request.assetId)
        IN assetInfo.networkId =
               (IF ref \in DOMAIN ChainTable THEN ChainTable[ref]
                ELSE <<"eip155", Colon>> \o ref)

ResolvedChain == Parsed /\ IsCaip(request.assetId) /\ SupportedChain(request.assetId)

\* C9 (as claimed): for asset namespace erc20 the contractAddress is
\* everything after the "erc20:" prefix of the asset part, further ":" and
\* "/" included.
C9_Erc20ReferenceVerbatim ==
    (ResolvedChain /\ AssetNamespaceOf(request.assetId) = <<"erc20">>) =>
        /\ Accepted
        /\ assetInfo.type = "erc20"
        /\ assetInfo.tokenId = Undefined
        /\ assetInfo.contractAddress = After(AssetPartOf(request.assetId), Colon)

\* C9 (amended): for a CAIP identifier with chain namespace eip155 or bip122
\* and asset namespace erc20, parseAssetId yields type erc20, no tokenId, and
\* contractAddress = the text after "erc20:" up to the next "/" or the end
\* of the identifier, further ":" included; a second "/" and what follows it
\* are dropped.
C9_Erc20ReferenceUpToSlash ==
    (ResolvedChain /\ AssetNamespaceOf(request.assetId) = <<"erc20">>) =>
        /\ Accepted
        /\ assetInfo.type = "erc20"
        /\ assetInfo.tokenId = Undefined
        /\ assetInfo.contractAddress =
               After(AssetSegmentOf(request.assetId), Colon)

C9_Witness ==
    /\ Parsed
    /\ request.assetId = <<"eip155", Colon, "1", Slash, "erc20", Colon,
                           "0xabc", Colon, "7", Slash, "x">>
    /\ assetInfo.contractAddress = <<"0xabc", Colon, "7">>

UnsupportedNamespaceErrors ==
    {"Unsupported chain namespace", "Unsupported asset namespace"}

AssetNamespacesOfSpec == {<<"slip44">>, <<"erc20">>, <<"erc721">>, <<"erc1155">>}

\* C11: parseAssetId throws an unsupported-namespace error, and returns no
\* AssetInfo, for every CAIP identifier whose asset namespace is none of
\* slip44, erc20, erc721, erc1155, whatever its chain namespace; when the
\* chain namespace is a supported one the error names the asset namespace.
C11_UnsupportedAssetNamespace ==
    (Parsed /\ IsCaip(request.assetId)
        /\ AssetNamespaceOf(request.assetId) \notin AssetNamespacesOfSpec) =>
        /\ ~Accepted
        /\ assetInfo.thrown \in UnsupportedNamespaceErrors
        /\ SupportedChain(request.assetId) =>
               assetInfo.thrown = "Unsupported asset namespace"

C11_Witness ==
    /\ Parsed
    /\ request.assetId = <<"eip155", Colon, "1", Slash, "foo", Colon, "0xabc">>
    /\ assetInfo.thrown = "Unsupported asset namespace"

\* the number of ":"-separated segments of a legacy identifier
Segments(id) == Cardinality({i \in 1..Len(id) : id[i] = Colon}) + 1

\* C12: a legacy identifier (no "/") is classified by its number of
\* ":"-separated segments: the literal bitcoin gives type bitcoin on network
\* bitcoin; one segment gives native on that network with no
\* contractAddress; two give erc20 with networkId and contractAddress; three
\* give erc721 with contractAddress and tokenId.
C12_LegacyClassification ==
    (Parsed /\ ~IsCaip(request.assetId)) =>
        LET id == request.assetId
            rest == After(id, Colon)
        IN IF id = <<"bitcoin">>
           THEN /\ Accepted
                /\ assetInfo.type = "bitcoin"
                /\ assetInfo.networkId = <<"bitcoin">>
           ELSE /\ Segments(id) = 1 =>
                    /\ Accepted
                    /\ assetInfo.type = "native"
                    /\ assetInfo.networkId = id
                    /\ assetInfo.contractAddress = Undefined
                /\ Segments(id) = 2 =>
                    /\ Accepted
                    /\ assetInfo.type = "erc20"
                    /\ assetInfo.networkId = Before(id, Colon)
                    /\ assetInfo.contractAddress = rest
                /\ Segments(id) = 3 =>
                    /\ Accepted
                    /\ assetInfo.type = "erc721"
                    /\ assetInfo.contractAddress = Before(rest, Colon)
                    /\ assetInfo.tokenId = After(rest, Colon)

C12_Witness ==
    /\ Parsed
    /\ request.assetId = <<"ethereum", Colon, "0xabc", Colon, "7">>
    /\ assetInfo.type = "erc721"
    /\ assetInfo.tokenId = <<"7">>

\* The two grammars of the specification.  Legacy: no "/" and one to three
\* segments.  CAIP: <chainNamespace>:<chainReference>/<assetNamespace>:
\* <assetReference...>, read generously (empty components and further "/"
\* are let through).
MatchesLegacy(id) == ~IsCaip(id) /\ Segments(id) <= 3
MatchesCaip(id) ==
    /\ IsCaip(id)
    /\ Includes(ChainPartOf(id), Colon)
    /\ Includes(AssetPartOf(id), Colon)

\* C13: parseAssetId rejects every identifier that matches neither grammar:
\* a legacy identifier with more than three segments fails with "Invalid
\* assetId format", and an identifier with a "/" that lacks the ":" of its
\* chain part or of its asset part yields no AssetInfo (whatever the error).
C13_NeitherGrammarRejected ==
    (Parsed /\ ~MatchesLegacy(request.assetId)
        /\ ~MatchesCaip(request.assetId)) =>
        /\ ~Accepted
        /\ ~IsCaip(request.assetId) =>
               assetInfo.thrown = "Invalid assetId format"

\* the part of C13 about legacy identifiers, on its own
C13_LegacyTooManySegments ==
    (Parsed /\ ~IsCaip(request.assetId) /\ Segments(request.assetId) > 3) =>
        assetInfo.thrown = "Invalid assetId format"

\* A field of an AssetInfo is present when it holds a string (the empty
\* string included) and absent when it is undefined.
Present(v) == IsString(v)
Absent(v) == v = Undefined

\* C14: every AssetInfo parseAssetId returns, in either grammar, has no
\* contractAddress and no tokenId when its type is native or bitcoin, a
\* contractAddress and no tokenId when its type is erc20, and a
\* contractAddress when its type is erc721 or erc1155.
C14_FieldsMatchType ==
    (Parsed /\ Accepted) =>
        /\ assetInfo.type \in {"native", "bitcoin", "erc20", "erc721", "erc1155"}
        /\ assetInfo.type \in {"native", "bitcoin"} =>
               Absent(assetInfo.contractAddress) /\ Absent(assetInfo.tokenId)
        /\ assetInfo.type = "erc20" =>
               Present(assetInfo.contractAddress) /\ Absent(assetInfo.tokenId)
        /\ assetInfo.type \in {"erc721", "erc1155"} =>
               Present(assetInfo.contractAddress)

C14_Witness ==
    /\ Parsed
    /\ IsCaip(request.assetId)
    /\ assetInfo.type = "erc1155"
    /\ assetInfo.contractAddress = <<"0xabc">>
    /\ assetInfo.tokenId = <<"7">>

\* the fields of an AssetInfo other than the identifier it was parsed from
Fields(a) == <<a.thrown, a.networkId, a.type, a.contractAddress, a.tokenId>>

Built == op = "buildAssetId"

\* C15: for every legacy identifier x that parseAssetId accepts, the
\* identifier buildAssetId makes from the networkId, contractAddress and
\* tokenId of parse(x) parses to the same networkId, type, contractAddress
\* and tokenId as x; empty segments and a first segment "bitcoin" included.
C15_BuildParseRoundTrip ==
    (Built /\ ~IsCaip(request.assetId)) =>
        /\ IsString(result)
        /\ Fields(parseAssetId(result)) = Fields(assetInfo)

\* the round trip where it does hold: no empty segment after the first,
\* and a first segment other than "bitcoin" unless it is the whole input
C15_RoundTripOfPlainIds ==
    (Built /\ ~IsCaip(request.assetId)
        /\ (assetInfo.networkId = <<"bitcoin">> => assetInfo.type = "bitcoin")
        /\ assetInfo.contractAddress # <<>>
        /\ assetInfo.tokenId # <<>>) =>
        Fields(parseAssetId(result)) = Fields(assetInfo)

\* C16: a base-unit amount converted to the human unit and back is the
\* amount itself: etherToWei(weiToEther(b)) = b with 18 decimals and
\* bitcoinToSatoshi(satoshiToBitcoin(b)) = b with 8, for every non-negative
\* integer b.
C16_UnitRoundTrip ==
    op \in {"etherToWei", "bitcoinToSatoshi"} => result.back = result.base

C16_Witness ==
    /\ op = "etherToWei"
    /\ result.human = <<"1", "5", Dot, "0", "0", "5">>
    /\ result.back = result.base

\* Reading an amount the way the algorithm of the specification does.
\* b with zeros in front so that it has more than d digits
Widened(b, d) ==
    IF Len(b) > d THEN b ELSE [i \in 1..(d + 1 - Len(b)) |-> "0"] \o b
\* the decimal text of b div 10^d and the d digits of b mod 10^d
WholeText(b, d) == SubSeq(Widened(b, d), 1, Len(Widened(b, d)) - d)
FractionText(b, d) ==
    SubSeq(Widened(b, d), Len(Widened(b, d)) - d + 1, Len(Widened(b, d)))
AllZero(s) == \A i \in 1..Len(s) : s[i] = "0"
\* f is s without its trailing zeros
IsStripped(f, s) ==
    /\ Len(f) <= Len(s)
    /\ f = SubSeq(s, 1, Len(f))
    /\ AllZero(SubSeq(s, Len(f) + 1, Len(s)))
    /\ f # <<>> => f[Len(f)] # "0"

\* the number a string of digits denotes
RECURSIVE NatOf(_)
NatOf(s) ==
    IF s = <<>> THEN 0
    ELSE 10 * NatOf(SubSeq(s, 1, Len(s) - 1)) + DigitOf(s[Len(s)])

Rendered ==
    op \in {"weiToEther", "etherToWei", "satoshiToBitcoin", "bitcoinToSatoshi"}

One(d) == <<"1">> \o [i \in 1..d |-> "0"]
OneAndAHalf(d) == <<"1", "5">> \o [i \in 1..(d - 1) |-> "0"]

\* C17: the human-unit string of a base amount b with d decimals (d = 18
\* for weiToEther, d = 8 for satoshiToBitcoin) is the text of b div 10^d
\* alone when b mod 10^d = 0, and otherwise that text, ".", and the
\* remainder left-padded to d digits with its trailing zeros stripped; it
\* never ends in "0" after a decimal point and never ends in ".".  0 gives
\* "0", 10^18 gives "1" and 15 * 10^17 gives "1.5" at d = 18, 10^8 gives
\* "1" at d = 8.  Where the amount fits a machine integer (nine
\* digits, d = 8) the two parts are compared as numbers with b div 10^d
\* and b mod 10^d.
C17_HumanUnitFormat ==
    Rendered =>
        LET d == result.decimals
            b == result.base
            h == result.human
            whole == WholeText(b, d)
            fraction == FractionText(b, d)
        IN /\ h # <<>> /\ h[Len(h)] # Dot
           /\ Includes(h, Dot) => h[Len(h)] # "0"
           /\ IF AllZero(fraction) THEN h = whole
              ELSE /\ Before(h, Dot) = whole
                   /\ Includes(h, Dot)
                   /\ IsStripped(After(h, Dot), fraction)
           /\ b = <<"0">> => h = <<"0">>
           /\ b = One(d) => h = <<"1">>
           /\ b = OneAndAHalf(d) => h = <<"1", Dot, "5">>
           /\ (d = BitcoinDecimals /\ Len(b) <= 9) =>
                  /\ NatOf(Before(h, Dot)) = NatOf(b) \div (10 ^ d)
                  /\ NatOf(PadEnd(After(h, Dot), d)) = NatOf(b) % (10 ^ d)

C17_Witness ==
    /\ op = "weiToEther"
    /\ result.base = OneAndAHalf(EtherDecimals)
    /\ result.human = <<"1", Dot, "5">>

C17_WitnessSatoshi ==
    /\ op = "satoshiToBitcoin"
    /\ result.base = <<"1", "5", "0", "0">>
    /\ result.human = <<"0", Dot, "0", "0", "0", "0", "1", "5">>

\* the dispatcher operations that take an asset identifier
AssetOps ==
    {"getBalance", "getHistory", "getPrice", "getPriceHistory",
     "getTokenMetadata", "getNftMetadata"}

\* a CAIP identifier on eip155 whose chain reference is outside the table,
\* so that the parser's networkId is eip155:<reference>
UnmappedEip155(id) ==
    /\ IsCaip(id)
    /\ ChainNamespaceOf(id) = <<"eip155">>
    /\ HasChainReference(id)
    /\ ChainReferenceOf(id) \notin DOMAIN ChainTable
    /\ parseAssetId(id).networkId = <<"eip155", Colon>> \o ChainReferenceOf(id)

\* C18: every dispatcher operation given a CAIP identifier whose eip155
\* chain reference is outside {1, 137, 42161, 10, 8453} returns success =
\* false and no data, since no provider recognises the network; stated here
\* for the native asset (asset namespace slip44) of such a chain.
C18_UnmappedChainFailsGracefully ==
    (op \in AssetOps /\ UnmappedEip155(request.assetId)
        /\ AssetNamespaceOf(request.assetId) = <<"slip44">>) =>
        /\ ~thrown
        /\ ~response.success
        /\ ~Populated(response.data)

\* the operations that do fail for such an identifier: all but the two
\* price operations
C18_NonPriceOpsFail ==
    (op \in AssetOps \ {"getPrice", "getPriceHistory"}
        /\ UnmappedEip155(request.assetId)) =>
        /\ ~thrown
        /\ ~response.success
        /\ ~Populated(response.data)

\* the body of the one answer of the Blockstream API
BitcoinAnswered ==
    /\ response.success
    /\ invoked = {"bitcoin"}
    /\ \E c \in upstream : c.provider = "bitcoin" /\ c.outcome = "ok"
AnswerBody == (CHOOSE c \in upstream : c.provider = "bitcoin").body

\* the positions of the inputs and outputs of tx that carry the address
InputsOf(tx, address) == {i \in 1..Len(tx.vin) : tx.vin[i] = address}
OutputsTo(tx, address) ==
    {j \in 1..Len(tx.vout) : tx.vout[j].scriptpubkey_address = address}
FirstOf(positions) == CHOOSE j \in positions : \A k \in positions : j <= k
RECURSIVE TotalOf(_, _)
TotalOf(vout, positions) ==
    IF positions = {} THEN 0
    ELSE LET j == FirstOf(positions)
         IN vout[j].value + TotalOf(vout, positions \ {j})

\* C19: Bitcoin history classifies each transaction of the page by the
\* queried address: among the spent inputs and not among the outputs gives
\* send with value = the sum of all output values; among the outputs only
\* gives receive with value = the value of the (first) output that pays the
\* address; among both or among neither gives send with value "0".
C19_BitcoinHistoryClassification ==
    (op = "getHistory" /\ BitcoinAnswered) =>
        LET txs == AnswerBody
            out == response.data.transactions
            address == request.address
        IN /\ Len(out) = Len(txs)
           /\ \A k \in 1..Len(txs) :
                  LET ins == InputsOf(txs[k], address)
                      outs == OutputsTo(txs[k], address)
                  IN /\ (ins # {} /\ outs = {}) =>
                         /\ out[k].type = "send"
                         /\ NatOf(out[k].value) =
                                TotalOf(txs[k].vout, DOMAIN txs[k].vout)
                     /\ (ins = {} /\ outs # {}) =>
                         /\ out[k].type = "receive"
                         /\ NatOf(out[k].value) =
                                txs[k].vout[FirstOf(outs)].value
                     /\ ((ins # {}) <=> (outs # {})) =>
                         /\ out[k].type = "send"
                         /\ out[k].value = <<"0">>

\* a page of two transactions: one spends from the address to someone
\* else, the other pays the address
C19_Witness ==
    /\ op = "getHistory"
    /\ BitcoinAnswered
    /\ Len(response.data.transactions) = 2
    /\ response.data.transactions[1].type = "send"
    /\ response.data.transactions[1].value = <<"5", "0", "0", "0", "0">>
    /\ response.data.transactions[2].type = "receive"

C19_WitnessBoth ==
    /\ op = "getHistory"
    /\ BitcoinAnswered
    /\ Len(response.data.transactions) = 1
    /\ InputsOf(AnswerBody[1], request.address) # {}
    /\ OutputsTo(AnswerBody[1], request.address) # {}
    /\ response.data.transactions[1].value = <<"0">>

C22_CacheEntriesStable ==
    [][\A n \in DOMAIN providers :
           n \in DOMAIN providers' /\ providers'[n] = providers[n]]_vars

\* no client is stored under two networkIds
C22_ClientsDistinct ==
    \A m \in DOMAIN providers, n \in DOMAIN providers :
        providers[m] = providers[n] => m = n

\* getBalance on ethereum answered through the client stored first, after
\* a client for polygon was stored as the second
C22_Witness ==
    /\ op = "getBalance"
    /\ response.success
    /\ assetInfo.networkId = <<"ethereum">>
    /\ DOMAIN providers = {<<"ethereum">>, <<"polygon">>}
    /\ providers[<<"ethereum">>] = 1
    /\ providers[<<"polygon">>] = 2

\* the networkIds that are keys of both tables
KnownToBothTables == DOMAIN NETWORKS \cap DOMAIN ALCHEMY_NETWORKS

\* C29: in every reachable state the keys of the per-network client cache
\* are networkIds present in both NETWORKS and ALCHEMY_NETWORKS: a
\* getProvider call for any other networkId throws and stores nothing.
C29_CacheKeysKnown == DOMAIN providers \subseteq KnownToBothTables

\* what does hold: a cached key is in both tables or is the name of a
\* property every object inherits
C29_CacheKeysKnownOrInherited ==
    \A n \in DOMAIN providers :
        n \in KnownToBothTables \/ (Len(n) = 1 /\ n[1] \in ObjectPrototypeKeys)

\* the identifier of the request is one parseAssetId rejects
RejectedByParser == parseAssetId(request.assetId).thrown # "none"

\* C23: every operation taking an asset identifier, given one that
\* parseAssetId rejects, returns success = false and issues no upstream
\* call.
C23_RejectedIdNoUpstreamCall ==
    (op \in AssetOps /\ RejectedByParser) =>
        /\ ~response.success
        /\ upstream = {}

\* what does hold: the four operations that parse the identifier
C23_ParsingOpsRejectFirst ==
    (op \in AssetOps \ {"getPrice", "getPriceHistory"} /\ RejectedByParser) =>
        /\ ~thrown
        /\ ~response.success
        /\ upstream = {}
        /\ invoked = {}

\* the operations whose data carries an assetId and that parse the request
EchoingOps == {"getBalance", "getHistory", "getTokenMetadata"}

\* C24: the AssetInfo parsed from an accepted identifier keeps the
\* identifier, and every successful getBalance, getHistory and
\* getTokenMetadata response carries in data.assetId the very identifier
\* the caller passed, for Bitcoin as for the EVM networks.
C24_AssetIdEchoed ==
    (op \in EchoingOps /\ response.success) =>
        /\ assetInfo.assetId = request.assetId
        /\ response.data.assetId = request.assetId

\* what does hold: the parser keeps the identifier (under SpecParser) ...
C24_ParserKeepsAssetId ==
    (Parsed /\ Accepted) => assetInfo.assetId = request.assetId

\* ... and so does every successful response, except that a Bitcoin one
\* always says "bitcoin"
C24_EchoedOrBitcoinLiteral ==
    (op \in EchoingOps /\ response.success) =>
        /\ assetInfo.assetId = request.assetId
        /\ response.data.assetId =
               (IF assetInfo.type = "bitcoin" THEN <<"bitcoin">>
                ELSE request.assetId)

\* an EVM getBalance for an identifier whose parsed type is an NFT one
NftBalanceRequest ==
    /\ op = "getBalance"
    /\ invoked = {"alchemy"}
    /\ assetInfo.type \in {"erc721", "erc1155"}

\* C26 (as claimed): an EVM getBalance for an identifier of type erc721 or
\* erc1155 fails with the unsupported-asset-type error and issues no
\* upstream query, whatever the network.
C26_NftBalanceUnsupportedType ==
    NftBalanceRequest =>
        /\ ~response.success
        /\ response.message = UnsupportedAssetType
        /\ upstream = {}

\* C26: such a getBalance always fails without an upstream query; its error
\* is the unsupported-asset-type one when the API key is set and the network
\* has a client, the missing-key one when no key is set, and otherwise the
\* one getProvider threw for the network.
C26_NftBalanceFailsAfterProvider ==
    NftBalanceRequest =>
        LET net == assetInfo.networkId
        IN /\ ~thrown
           /\ ~response.success
           /\ upstream = {}
           /\ response.error =
                  (IF apiKey = "" THEN "MISSING_API_KEY"
                   ELSE "BALANCE_FETCH_ERROR")
           /\ response.message =
                  (IF apiKey = "" THEN ApiKeyRequired
                   ELSE IF net \in DOMAIN providers THEN UnsupportedAssetType
                   ELSE IF ~Truthy(Lookup(NETWORKS, net))
                   THEN UnsupportedNetwork
                   ELSE AlchemyNotSupported)

\* an erc721 balance asked on polygon: refused for its type, after the
\* client for polygon was made
C26_Witness ==
    /\ NftBalanceRequest
    /\ apiKey = "key"
    /\ assetInfo.networkId = <<"polygon">>
    /\ response = FailWith("BALANCE_FETCH_ERROR", UnsupportedAssetType)
    /\ <<"polygon">> \in DOMAIN providers

\* the same on a network the registry lacks: refused for the network
C26_WitnessUnknownNetwork ==
    /\ NftBalanceRequest
    /\ apiKey = "key"
    /\ assetInfo.networkId = <<"dogecoin">>
    /\ response = FailWith("BALANCE_FETCH_ERROR", UnsupportedNetwork)

\* C27: in every AssetInfo parseAssetId returns, the type is bitcoin exactly
\* when the networkId is bitcoin, so that the operations branching on the
\* type and the ones branching on the networkId agree on which requests are
\* Bitcoin requests.
C27_BitcoinTypeIffBitcoinNetwork ==
    (Parsed /\ Accepted) =>
        (assetInfo.type = "bitcoin" <=> assetInfo.networkId = <<"bitcoin">>)

\* what does hold: the type bitcoin comes with the networkId bitcoin
C27_BitcoinTypeOnBitcoinNetwork ==
    (Parsed /\ Accepted /\ assetInfo.type = "bitcoin") =>
        assetInfo.networkId = <<"bitcoin">>

PriceOps == {"getPrice", "getPriceHistory"}

\* a legacy identifier network:contract or network:contract:tokenId
IsLegacyToken(id) ==
    ~Includes(id, Slash) /\ Len(Split(id, Colon)) \in {2, 3}

\* the request to look a price up by contract address
ContractLookups == {c \in upstream : c.call = "/simple/token_price"}

\* C30: for a legacy token identifier the price operations ask for the coin
\* of the network named by the first segment, the coin the bare network
\* identifier resolves to, and echo the identifier they were given; a price
\* lookup by contract address happens only for an identifier containing
\* "/erc20:", and only after the first lookup came back without data.
C30_LegacyTokenPricedAsNative ==
    /\ (op \in PriceOps /\ IsLegacyToken(request.assetId)) =>
           LET net == Before(request.assetId, Colon)
           IN /\ ContractLookups = {}
              /\ response.success =>
                     /\ response.data.assetId = request.assetId
                     /\ response.data.coinId = getCoinGeckoId(net)
                     /\ net \in DOMAIN COINGECKO_COIN_IDS =>
                            response.data.coinId = COINGECKO_COIN_IDS[net]
    /\ (op \in ServiceOps /\ ContractLookups # {}) =>
           /\ op = "getPrice"
           /\ IncludesSub(request.assetId, <<Slash, "erc20", Colon>>)
           /\ Call("coingecko", "/simple/price", "nodata") \in upstream

\* the price of a token on polygon: the price of MATIC under the token's id
C30_Witness ==
    /\ op = "getPrice"
    /\ request.assetId = <<"polygon", Colon, "0xabc">>
    /\ response.success
    /\ response.data.coinId = <<"matic-network">>
    /\ response.data.assetId = <<"polygon", Colon, "0xabc">>

\* a CAIP erc20 identifier priced by its contract after the first lookup
\* found nothing
C30_WitnessFallback ==
    /\ op = "getPrice"
    /\ response.success
    /\ response.data.source = "contract"
    /\ ContractLookups # {}

\* getNftOwners came back with the owners of a good answer
OwnersAnswered ==
    /\ op = "getNftOwners"
    /\ response.success
    /\ \E c \in upstream : c.provider = "alchemy" /\ c.outcome = "ok"

OwnersBody == (CHOOSE c \in upstream : c.provider = "alchemy").body

\* the owner comes with per-token balances
HasDetail(item) ==
    item.tokenBalances.kind = "array" /\ item.tokenBalances.items # <<>>

\* the number of entries an owner accounts for, and of those before owner i
EntriesFor(item) ==
    IF HasDetail(item) THEN Len(item.tokenBalances.items) ELSE 1

RECURSIVE EntriesBefore(_, _)
EntriesBefore(body, i) ==
    IF i = 1 THEN 0
    ELSE EntriesBefore(body, i - 1) + EntriesFor(body[i - 1])

\* C25: without a tokenId the owners of the response are, in the order of
\* the upstream answer, one entry per (owner, token balance) pair and one
\* entry with an empty tokenId and balance "1" for each owner listed without
\* balances; with a tokenId they are one entry per upstream owner, with the
\* tokenId asked for and balance "1"; total is the number of entries.
C25_NftOwnersFlattened ==
    OwnersAnswered =>
        LET body == OwnersBody
            owners == response.data.owners
        IN /\ response.data.total = Len(owners)
           /\ IF Truthy(request.tokenId)
              THEN /\ Len(owners) = Len(body)
                   /\ \A k \in 1..Len(body) :
                          owners[k] = [owner |-> body[k],
                                       tokenId |-> request.tokenId,
                                       balance |-> <<"1">>]
              ELSE /\ Len(owners) = EntriesBefore(body, Len(body) + 1)
                   /\ \A i \in 1..Len(body) :
                          LET at == EntriesBefore(body, i)
                              item == body[i]
                          IN IF HasDetail(item)
                             THEN \A k \in 1..Len(item.tokenBalances.items) :
                                      LET bal == item.tokenBalances.items[k]
                                      IN owners[at + k] =
                                             [owner |-> item.ownerAddress,
                                              tokenId |->
                                                  IF bal.tokenId = Undefined
                                                  THEN <<>> ELSE bal.tokenId,
                                              balance |->
                                                  IF bal.balance = Undefined
                                                  THEN <<"1">>
                                                  ELSE bal.balance]
                             ELSE owners[at + 1] =
                                      [owner |-> item.ownerAddress,
                                       tokenId |-> <<>>, balance |-> <<"1">>]

\* an owner of two tokens followed by an owner listed without balances:
\* three entries
C25_Witness ==
    /\ OwnersAnswered
    /\ request.tokenId = Undefined
    /\ Len(OwnersBody) = 2
    /\ HasDetail(OwnersBody[1]) /\ Len(OwnersBody[1].tokenBalances.items) = 2
    /\ OwnersBody[2].tokenBalances = NoBalances
    /\ response.data.total = 3
    /\ response.data.owners[3] = [owner |-> OwnerAt(2), tokenId |-> <<>>,
                                  balance |-> <<"1">>]

\* two owners of token 7
C25_WitnessToken ==
    /\ OwnersAnswered
    /\ request.tokenId = <<"7">>
    /\ response.data.total = 2
    /\ response.data.owners[2] = [owner |-> OwnerAt(2), tokenId |-> <<"7">>,
                                  balance |-> <<"1">>]

\* the identifiers listed in the request and the positions of the getBalance
\* calls that succeeded
Listed == request.assetIds
Succeeded == {i \in 1..Len(joined) : joined[i].success}

Distinct(ids) ==
    \A i \in 1..Len(ids), j \in 1..Len(ids) : ids[i] = ids[j] => i = j

\* C28: getMultipleBalances runs one getBalance per listed identifier and
\* returns success = true whatever they return; the keys of its result are
\* exactly the identifiers whose getBalance succeeded, and for distinct
\* identifiers the result holds under each key the data of that getBalance,
\* whatever the order in which the calls completed.
C28_MultipleBalancesCollected ==
    op = "getMultipleBalances" =>
        /\ ~thrown
        /\ response.success
        /\ Len(joined) = Len(Listed)
        /\ DOMAIN response.data.results = {Listed[i] : i \in Succeeded}
        /\ Distinct(Listed) =>
               \A i \in Succeeded :
                   response.data.results[Listed[i]] = joined[i].data

\* the balance of ethereum failed and the one of bitcoin came back: a result
\* with the single key bitcoin
C28_Witness ==
    /\ op = "getMultipleBalances"
    /\ Listed = <<<<"ethereum">>, <<"bitcoin">>>>
    /\ Succeeded = {2}
    /\ response.success
    /\ DOMAIN response.data.results = {<<"bitcoin">>}

\* the identifiers the portfolio has an entry for
InPortfolio ==
    {response.data.portfolio[k].assetId :
         k \in 1..Len(response.data.portfolio)}

\* C21: an operation that joins sub-calls fails as a whole when one of them
\* fails: getMultipleBalances returns success = false as soon as one
\* getBalance does, and a successful getPortfolioSummary has an entry for
\* every identifier listed.
C21_JoinedCallsFailTogether ==
    /\ (op = "getMultipleBalances" /\ Succeeded # 1..Len(joined)) =>
           ~response.success
    /\ (op = "getPortfolioSummary" /\ response.success) =>
           \A i \in 1..Len(Listed) : Listed[i] \in InPortfolio

\* what does hold: getPortfolioSummary fails when getMultipleBalances or
\* getMultiplePrices as a whole does ...
C21_PortfolioFailsWithEither ==
    (op = "getPortfolioSummary" /\ Succeeded # 1..Len(joined)) =>
        /\ ~thrown
        /\ response = Fail("PORTFOLIO_SUMMARY_SERVICE_ERROR")

\* ... and an erc20 getBalance fails when balanceOf or decimals does
C21_Erc20BalanceFailsWithEither ==
    (op = "getBalance" /\ invoked = {"alchemy"}
        /\ \E c \in upstream : c.call \in {"balanceOf", "decimals"}
                                   /\ c.outcome # "ok") =>
        ~response.success

====
